---- MODULE Spec2Model ----
(***************************************************************************)
(* TDX measurement reproduction (reproduce.mjs): the MRTD page-extension   *)
(* preimage, the RTMR event log and register fold, and the binary codecs   *)
(* they rest on (firmware metadata, HOB, ACPI loader, PE/COFF preimage,    *)
(* QEMU kernel header patch, UUID and UTF-16LE encoding).                  *)
(*                                                                         *)
(* Conventions of the model                                                *)
(*  - a Uint8Array is a sequence of 0..255, a JS string a sequence of      *)
(*    UTF-16 code units; file offsets are 0-based as in the source, so     *)
(*    byte k of the source is element k+1 of the sequence;                 *)
(*  - a JS Number that can exceed 2^31 (guest-physical addresses, RAM      *)
(*    size, initrd limits) is a pair <<pg, off>> standing for              *)
(*    pg * 4096 + off with off in 0..4095 (pg may be negative);            *)
(*  - SHA-384 is a collision-free symbolic digest: sha384(b) is the        *)
(*    sequence <<-1, Len(b)>> \o b, standing for the 48 bytes of the       *)
(*    digest of b (the marker -1 is no byte, the length makes a digest     *)
(*    self-delimiting inside a concatenation);                             *)
(*  - a function that can throw returns [ok |-> FALSE, err |-> message]    *)
(*    or [ok |-> TRUE, ...].                                               *)
(***************************************************************************)
EXTENDS Integers, Sequences, FiniteSets, TLC

\* ------------------------------------------------------------------------
\* Byte and number helpers
\* ------------------------------------------------------------------------

PAGE_SIZE == 4096

Min(a, b) == IF a <= b THEN a ELSE b

Max(a, b) == IF a >= b THEN a ELSE b

\* new Uint8Array(n)
Zeros(n) == [i \in 1..n |-> 0]

\* Elements lo..hi of a list of byte strings, joined in order (halving keeps
\* the evaluation shallow on long lists).
RECURSIVE FlattenRange(_, _, _)
FlattenRange(parts, lo, hi) ==
  IF lo > hi THEN <<>>
  ELSE IF lo = hi THEN parts[lo]
  ELSE FlattenRange(parts, lo, (lo + hi) \div 2)
         \o FlattenRange(parts, (lo + hi) \div 2 + 1, hi)

Flatten(parts) == FlattenRange(parts, 1, Len(parts))

RECURSIVE SumLenRange(_, _, _)
SumLenRange(parts, lo, hi) ==
  IF lo > hi THEN 0
  ELSE IF lo = hi THEN Len(parts[lo])
  ELSE SumLenRange(parts, lo, (lo + hi) \div 2)
         + SumLenRange(parts, (lo + hi) \div 2 + 1, hi)

SumLen(parts) == SumLenRange(parts, 1, Len(parts))

\* bytes.subarray(begin, end): negative indices count from the end, both are
\* clamped to the buffer, and an empty view results when end <= begin.
subarray(bytes, begin, end) ==
  LET n == Len(bytes)
      b == IF begin < 0 THEN Max(n + begin, 0) ELSE Min(begin, n)
      e == IF end < 0 THEN Max(n + end, 0) ELSE Min(end, n)
  IN  IF e <= b THEN <<>> ELSE SubSeq(bytes, b + 1, e)

\* The 0-based start of bytes.subarray(begin, ...) within bytes.
subarrayStart(bytes, begin) ==
  LET n == Len(bytes)
  IN  IF begin < 0 THEN Max(n + begin, 0) ELSE Min(begin, n)

\* Writes data into buf at 0-based offset off (caller checks the range).
WriteAt(buf, off, data) ==
  SubSeq(buf, 1, Min(off, Len(buf)))
    \o SubSeq(data, 1, Min(Len(data), Len(buf) - off))
    \o SubSeq(buf, off + Len(data) + 1, Len(buf))

\* The UTF-16 code units of a decoded code point.
codeUnits(cp) ==
  IF cp < 65536 THEN << cp >>
  ELSE << 55296 + ((cp - 65536) \div 1024), 56320 + ((cp - 65536) % 1024) >>

\* The UTF-8 decoder of TextDecoder (WHATWG): needed / seen count the
\* continuation bytes of the sequence in progress, lower..upper is the range
\* the next continuation byte must lie in; a malformed sequence yields
\* U+FFFD and the offending byte is processed again.
RECURSIVE utf8decodeFrom(_, _, _, _, _, _, _, _)
utf8decodeFrom(bytes, i, needed, seen, cp, lower, upper, out) ==
  IF i > Len(bytes)
    THEN IF needed # 0 THEN out \o << 65533 >> ELSE out
  ELSE LET b == bytes[i] IN
    IF needed = 0
      THEN IF b < 128
             THEN utf8decodeFrom(bytes, i + 1, 0, 0, 0, 128, 191,
                                 out \o << b >>)
           ELSE IF b >= 194 /\ b <= 223
             THEN utf8decodeFrom(bytes, i + 1, 1, 0, b % 32, 128, 191, out)
           ELSE IF b >= 224 /\ b <= 239
             THEN utf8decodeFrom(bytes, i + 1, 2, 0, b % 16,
                                 IF b = 224 THEN 160 ELSE 128,
                                 IF b = 237 THEN 159 ELSE 191, out)
           ELSE IF b >= 240 /\ b <= 244
             THEN utf8decodeFrom(bytes, i + 1, 3, 0, b % 8,
                                 IF b = 240 THEN 144 ELSE 128,
                                 IF b = 244 THEN 143 ELSE 191, out)
           ELSE utf8decodeFrom(bytes, i + 1, 0, 0, 0, 128, 191,
                               out \o << 65533 >>)
    ELSE IF b < lower \/ b > upper
      THEN utf8decodeFrom(bytes, i, 0, 0, 0, 128, 191, out \o << 65533 >>)
    ELSE IF seen + 1 = needed
      THEN utf8decodeFrom(bytes, i + 1, 0, 0, 0, 128, 191,
                          out \o codeUnits(cp * 64 + (b % 64)))
    ELSE utf8decodeFrom(bytes, i + 1, needed, seen + 1, cp * 64 + (b % 64),
                        128, 191, out)

\* new TextDecoder().decode(bytes): UTF-8, a leading byte-order mark dropped.
utf8decode(bytes) ==
  LET out == utf8decodeFrom(bytes, 1, 0, 0, 0, 128, 191, <<>>)
  IN  IF Len(out) > 0 /\ out[1] = 65279 THEN Tail(out) ELSE out

\* The UTF-8 bytes of one code point.
utf8Bytes(cp) ==
  IF cp < 128 THEN << cp >>
  ELSE IF cp < 2048 THEN << 192 + (cp \div 64), 128 + (cp % 64) >>
  ELSE IF cp < 65536
    THEN << 224 + (cp \div 4096), 128 + ((cp \div 64) % 64), 128 + (cp % 64) >>
  ELSE << 240 + (cp \div 262144), 128 + ((cp \div 4096) % 64),
          128 + ((cp \div 64) % 64), 128 + (cp % 64) >>

\* new TextEncoder().encode(str): a surrogate pair is one code point, a lone
\* surrogate is replaced by U+FFFD.
RECURSIVE utf8encodeFrom(_, _, _)
utf8encodeFrom(str, i, out) ==
  IF i > Len(str) THEN out
  ELSE LET c == str[i] IN
    IF c >= 55296 /\ c <= 56319 /\ i < Len(str)
       /\ str[i + 1] >= 56320 /\ str[i + 1] <= 57343
      THEN utf8encodeFrom(str, i + 2,
             out \o utf8Bytes(65536 + (c - 55296) * 1024
                                + (str[i + 1] - 56320)))
    ELSE IF c >= 55296 /\ c <= 57343
      THEN utf8encodeFrom(str, i + 1, out \o utf8Bytes(65533))
    ELSE utf8encodeFrom(str, i + 1, out \o utf8Bytes(c))

utf8encode(str) == utf8encodeFrom(str, 1, <<>>)

\* TextEncoder.encodeInto(str, dest.subarray(off)): the UTF-8 bytes of str
\* written at off, cut at the end of dest (every text the source passes is
\* ASCII, so the cut never splits a character).
encodeInto(str, dest, off) ==
  LET enc == utf8encode(str)
  IN  [i \in 1..Len(dest) |->
         IF i > off /\ i <= off + Len(enc) THEN enc[i - off] ELSE dest[i]]

\* TextEncoderUtf16Le.encode: one little-endian u16 per code unit.
utf16LeEncode(str) ==
  [i \in 1..(2 * Len(str)) |->
     IF i % 2 = 1 THEN str[(i + 1) \div 2] % 256
                  ELSE (str[i \div 2] \div 256) % 256]

\* DataView.setUint16 / setUint32 values (wrapped modulo 2^16, 2^32).
U16LE(v) == << v % 256, (v \div 256) % 256 >>

U32LE(v) ==
  << v % 256, (v \div 256) % 256, (v \div 65536) % 256,
     (v \div 16777216) % 256 >>

\* DataView.getUint16 / getUint32 (little-endian) at 0-based offset off.
getUint16(b, off) == b[off + 1] + 256 * b[off + 2]

getUint32(b, off) ==
  b[off + 1] + 256 * b[off + 2] + 65536 * b[off + 3] + 16777216 * b[off + 4]

\* A JS Number. From -2^43 up to, not including, 2^43 it is the pair
\* <<pg, off>> = pg * 4096 + off with 0 <= off < 4096 (pg is negative for a
\* negative Number). Outside that range it is the triple <<pg, off, hi>> =
\* hi * 2^43 + pg * 4096 + off with 0 <= pg < 2^31: 2^43 is << 0, 0, 1 >>.
Num(n) == << n \div 4096, n % 4096 >>

\* The three limbs of a Number: hi * 2^43 + pg * 4096 + off, 0 <= pg < 2^31.
NumHi(a) == IF Len(a) = 3 THEN a[3] ELSE IF a[1] < 0 THEN -1 ELSE 0

NumPg(a) ==
  IF Len(a) = 3 \/ a[1] >= 0 THEN a[1] ELSE (a[1] + 2147483647) + 1

\* The Number of three limbs.
NumOf(hi, pg, off) ==
  IF hi = 0 THEN << pg, off >>
  ELSE IF hi = -1 THEN << (pg - 2147483647) - 1, off >>
  ELSE << pg, off, hi >>

RECURSIVE BitLen(_)
BitLen(n) == IF n < 1 THEN 0 ELSE 1 + BitLen(n \div 2)

\* The limbs plus one page.
NumNextPage(hi, pg) ==
  IF pg = 2147483647 THEN NumOf(hi + 1, 0, 0) ELSE NumOf(hi, pg + 1, 0)

\* The double nearest to hi * 2^43 + pg * 4096 + off, ties to even: from
\* 2^53 on a Number keeps the 53 leading bits only. q is the weight of the
\* last bit kept (at most 4096, for values below 2^65).
NumRound(hi, pg, off) ==
  IF hi < 1024 THEN NumOf(hi, pg, off)
  ELSE LET q == 2 ^ (BitLen(hi) - 10)
           r == off % q
           last == IF q = 4096 THEN pg % 2 ELSE (off \div q) % 2
           up == 2 * r > q \/ (2 * r = q /\ last = 1)
       IN  IF ~up THEN NumOf(hi, pg, off - r)
           ELSE IF off - r + q = 4096 THEN NumNextPage(hi, pg)
           ELSE NumOf(hi, pg, off - r + q)

\* a + b and a - b, limb by limb (16 and 15 bits of the page at a time).
NumAdd(a, b) ==
  LET off == a[2] + b[2]
      lo == (NumPg(a) % 65536) + (NumPg(b) % 65536) + (off \div 4096)
      mid == (NumPg(a) \div 65536) + (NumPg(b) \div 65536) + (lo \div 65536)
  IN  NumRound(NumHi(a) + NumHi(b) + (mid \div 32768),
               (mid % 32768) * 65536 + (lo % 65536), off % 4096)

NumSub(a, b) ==
  LET off == a[2] - b[2]
      lo == (NumPg(a) % 65536) - (NumPg(b) % 65536) + (off \div 4096)
      mid == (NumPg(a) \div 65536) - (NumPg(b) \div 65536) + (lo \div 65536)
  IN  NumRound(NumHi(a) - NumHi(b) + (mid \div 32768),
               (mid % 32768) * 65536 + (lo % 65536), off % 4096)

NumLt(a, b) ==
  \/ NumHi(a) < NumHi(b)
  \/ /\ NumHi(a) = NumHi(b)
     /\ \/ NumPg(a) < NumPg(b)
        \/ (NumPg(a) = NumPg(b) /\ a[2] < b[2])

NumLe(a, b) == a = b \/ NumLt(a, b)

\* getUint32 as a Number (the full 32-bit range).
getUint32Num(b, off) ==
  << b[off + 4] * 4096 + b[off + 3] * 16 + (b[off + 2] \div 16),
     (b[off + 2] % 16) * 256 + b[off + 1] >>

\* setUint32(., v, LE) of a Number, wrapped modulo 2^32.
U32LEOfNum(v) ==
  << v[2] % 256,
     (v[2] \div 256) + 16 * (v[1] % 16),
     (v[1] \div 16) % 256,
     (v[1] \div 4096) % 256 >>

\* setBigUint64(., BigInt(v), LE) of a Number, wrapped modulo 2^64.
U64LEOfNum(v) ==
  << v[2] % 256,
     (v[2] \div 256) + 16 * (NumPg(v) % 16),
     (NumPg(v) \div 16) % 256,
     (NumPg(v) \div 4096) % 256,
     (NumPg(v) \div 1048576) % 256,
     (NumPg(v) \div 268435456) + 8 * (NumHi(v) % 32),
     (NumHi(v) \div 32) % 256,
     (NumHi(v) \div 8192) % 256 >>

\* sha384(bytes): the symbolic 48-byte digest of bytes.
sha384(bytes) == << -1, Len(bytes) >> \o bytes

\* concatBytes(byteArrays) with the default length (the sum of the lengths).
concatBytes(byteArrays) == Flatten(byteArrays)

\* concatBytes(byteArrays, length): a zeroed buffer of the given length into
\* which the arrays are copied; Uint8Array.set throws a RangeError when an
\* array does not fit.
concatBytesLen(byteArrays, length) ==
  IF SumLen(byteArrays) > length
    THEN [ok |-> FALSE, err |-> "RangeError: offset is out of bounds"]
    ELSE [ok |-> TRUE,
          val |-> Flatten(byteArrays) \o Zeros(length - SumLen(byteArrays))]

\* ------------------------------------------------------------------------
\* UUID codec
\* ------------------------------------------------------------------------

\* The value of a hexadecimal digit (a code unit), as parseInt(., 16) reads it.
HexVal(c) ==
  IF c >= 48 /\ c <= 57 THEN c - 48
  ELSE IF c >= 97 /\ c <= 102 THEN c - 87
  ELSE c - 55

\* Number.toString(16) of one nibble: lowercase.
HexChar(v) == IF v < 10 THEN 48 + v ELSE 87 + v

\* uuid.split("-")
RECURSIVE SplitDash(_, _)
SplitDash(str, cur) ==
  IF str = <<>> THEN << cur >>
  ELSE IF Head(str) = 45 THEN << cur >> \o SplitDash(Tail(str), <<>>)
  ELSE SplitDash(Tail(str), Append(cur, Head(str)))

\* The big-endian bytes of parseInt(part, 16) modulo 2^(8n).
HexToBytesBE(part, n) ==
  LET padded == [i \in 1..(2 * n) |-> 48] \o part
      digits == SubSeq(padded, Len(padded) - 2 * n + 1, Len(padded))
  IN  [i \in 1..n |-> 16 * HexVal(digits[2 * i - 1]) + HexVal(digits[2 * i])]

Reverse(s) == [i \in 1..Len(s) |-> s[Len(s) + 1 - i]]

\* uuidToBytes with the two writes at offset 8 in the other order: the
\* 64-bit write of the last group comes last and clears bytes 8 and 9.
uuidToBytesNodeLast(uuid) ==
  LET parts == SplitDash(uuid, <<>>)
      r0 == Zeros(16)
      r1 == WriteAt(r0, 0, Reverse(HexToBytesBE(parts[1], 4)))
      r2 == WriteAt(r1, 4, Reverse(HexToBytesBE(parts[2], 2)))
      r3 == WriteAt(r2, 6, Reverse(HexToBytesBE(parts[3], 2)))
      r4 == WriteAt(r3, 8, HexToBytesBE(parts[4], 2))
  IN  WriteAt(r4, 8, HexToBytesBE(parts[5], 8))

uuidToBytes(uuid) ==
  LET parts == SplitDash(uuid, <<>>)
      r0 == Zeros(16)
      r1 == WriteAt(r0, 0, Reverse(HexToBytesBE(parts[1], 4)))
      r2 == WriteAt(r1, 4, Reverse(HexToBytesBE(parts[2], 2)))
      r3 == WriteAt(r2, 6, Reverse(HexToBytesBE(parts[3], 2)))
      r4 == WriteAt(r3, 8, HexToBytesBE(parts[5], 8))
  IN  WriteAt(r4, 8, HexToBytesBE(parts[4], 2))

\* The lowercase hexadecimal digits of the given bytes, most significant first.
HexOfBytesBE(bs) ==
  [i \in 1..(2 * Len(bs)) |->
     IF i % 2 = 1 THEN HexChar(bs[(i + 1) \div 2] \div 16)
                  ELSE HexChar(bs[i \div 2] % 16)]

\* bytesToUuid(bytes): reads the first 16 bytes of the view.
bytesToUuid(bytes) ==
  HexOfBytesBE(Reverse(SubSeq(bytes, 1, 4))) \o << 45 >>
    \o HexOfBytesBE(Reverse(SubSeq(bytes, 5, 6))) \o << 45 >>
    \o HexOfBytesBE(Reverse(SubSeq(bytes, 7, 8))) \o << 45 >>
    \o HexOfBytesBE(SubSeq(bytes, 9, 10)) \o << 45 >>
    \o HexOfBytesBE(SubSeq(bytes, 11, 14))
    \o HexOfBytesBE(SubSeq(bytes, 15, 16))

GLOBAL_VAR_GUID ==
  << 56, 98, 101, 52, 100, 102, 54, 49, 45, 57, 51, 99, 97, 45, 49, 49, 100,
     50, 45, 97, 97, 48, 100, 45, 48, 48, 101, 48, 57, 56, 48, 51, 50, 98,
     56, 99 >>

SECURITY_DB_GUID ==
  << 100, 55, 49, 57, 98, 50, 99, 98, 45, 51, 100, 51, 97, 45, 52, 53, 57,
     54, 45, 97, 51, 98, 99, 45, 100, 97, 100, 48, 48, 101, 54, 55, 54, 53,
     54, 102 >>

\* "96b582de-1fb2-45f7-baea-a366c55a082d"
FOOTER_GUID ==
  << 57, 54, 98, 53, 56, 50, 100, 101, 45, 49, 102, 98, 50, 45, 52, 53, 102,
     55, 45, 98, 97, 101, 97, 45, 97, 51, 54, 54, 99, 53, 53, 97, 48, 56,
     50, 100 >>

\* "e9eaf9f3-168e-44d5-a8eb-7f4d8738f6ae"
METADATA_GUID ==
  << 101, 57, 101, 97, 102, 57, 102, 51, 45, 49, 54, 56, 101, 45, 52, 52,
     100, 53, 45, 97, 56, 101, 98, 45, 55, 102, 52, 100, 56, 55, 51, 56,
     102, 54, 97, 101 >>

\* "e47a6535-984a-4798-865e-4685a7bf8ec2"
METADATA_OFFSET_GUID ==
  << 101, 52, 55, 97, 54, 53, 51, 53, 45, 57, 56, 52, 97, 45, 52, 55, 57,
     56, 45, 56, 54, 53, 101, 45, 52, 54, 56, 53, 97, 55, 98, 102, 56, 101,
     99, 50 >>

\* ------------------------------------------------------------------------
\* Firmware metadata decoder
\* ------------------------------------------------------------------------

TDX_METADATA_SECTION_TYPES ==
  << "BFV", "CFV", "TD_HOB", "TempMem", "PermMem", "Payload", "PayloadParam",
     "TD_INFO", "TD_PARAMS" >>

\* "TDVF"
TDVF_SIGNATURE == << 84, 68, 86, 70 >>

\* A DataView access of n bytes at 0-based offset off lies inside the view.
InView(b, off, n) == off >= 0 /\ off + n <= Len(b)

RangeError == [ok |-> FALSE, err |-> "RangeError"]

\* bytesToUuid(image.subarray(begin)): the DataView spans 16 bytes from the
\* start of the subarray and throws when the buffer ends before that.
bytesToUuidAt(image, begin) ==
  LET s == subarrayStart(image, begin)
  IN  IF s + 16 > Len(image)
        THEN RangeError
        ELSE [ok |-> TRUE, val |-> bytesToUuid(SubSeq(image, s + 1, s + 16))]

\* getBigUint64(off, LE) converted with Number(): all 64 bits, exact below
\* 2^53 and rounded to the nearest double from there on.
getUint64Num(b, off) ==
  NumRound((b[off + 6] \div 8) + 32 * b[off + 7] + 8192 * b[off + 8],
           (b[off + 2] \div 16) + 16 * b[off + 3] + 4096 * b[off + 4]
             + 1048576 * b[off + 5] + 268435456 * (b[off + 6] % 8),
           (b[off + 2] % 16) * 256 + b[off + 1])

\* One iteration of the loop of parseTdxMetadataSections, for record i
\* (offset = 32 + 32 i): the section pushed, or the throw.
sectionRecord(table, i) ==
  IF 32 + 32 * i + 32 > Len(table)
    THEN [ok |-> FALSE, err |-> "Not enough data for section"]
  ELSE IF ~NumLt(getUint32Num(table, 32 + 32 * i + 24), Num(9))
    THEN [ok |-> FALSE, err |-> "Invalid section type index"]
  ELSE [ok |-> TRUE,
        val |-> [rawOffset |-> getUint32(table, 32 + 32 * i),
                 rawSize |-> getUint32(table, 32 + 32 * i + 4),
                 memBase |-> getUint64Num(table, 32 + 32 * i + 8),
                 memSize |-> getUint64Num(table, 32 + 32 * i + 16),
                 sectionType |->
                   TDX_METADATA_SECTION_TYPES[
                     getUint32Num(table, 32 + 32 * i + 24)[2] + 1],
                 extendMr |-> (table[32 + 32 * i + 29] % 2 = 1)]]

\* The header checks without the version check.
metadataHeaderAnyVersion(metadataTable) ==
  IF Len(metadataTable) < 32
    THEN [ok |-> FALSE, err |-> "Data too short for TdxMetadata header"]
  ELSE IF bytesToUuid(metadataTable) # METADATA_GUID
    THEN [ok |-> FALSE, err |-> "Wrong metadata guid"]
  ELSE IF utf8decode(subarray(metadataTable, 16, 20)) # TDVF_SIGNATURE
    THEN [ok |-> FALSE, err |-> "Invalid signature"]
  ELSE [ok |-> TRUE, sectionCount |-> getUint32Num(metadataTable, 28)]

\* The checks of parseTdxMetadataSections ahead of the loop: sectionCount,
\* or the throw.
metadataHeader(metadataTable) ==
  IF Len(metadataTable) < 32
    THEN [ok |-> FALSE, err |-> "Data too short for TdxMetadata header"]
  ELSE IF bytesToUuid(metadataTable) # METADATA_GUID
    THEN [ok |-> FALSE, err |-> "Wrong metadata guid"]
  ELSE IF utf8decode(subarray(metadataTable, 16, 20)) # TDVF_SIGNATURE
    THEN [ok |-> FALSE, err |-> "Invalid signature"]
  ELSE IF getUint32Num(metadataTable, 24) # Num(1)
    THEN [ok |-> FALSE, err |-> "Unsupported version"]
  ELSE [ok |-> TRUE, sectionCount |-> getUint32Num(metadataTable, 28)]

\* firmware.subarray(getTdxMetadataOffset(firmware) - 16)
metadataTableOf(firmware, metadataOffset) ==
  subarray(firmware, metadataOffset - 16, Len(firmware))

\* The footer GUID checked against the last 16 bytes of the file.
checkFooterGuidLast(firmware) ==
  IF Len(firmware) < 16 THEN RangeError
  ELSE IF bytesToUuid(SubSeq(firmware, Len(firmware) - 15, Len(firmware)))
            # FOOTER_GUID
    THEN [ok |-> FALSE, err |-> "Wrong table footer guid"]
  ELSE [ok |-> TRUE]

\* The footer check of getTdxMetadataSections.
checkFooterGuid(firmware) ==
  LET footerOffset == Len(firmware) - 48
      footerGuid == bytesToUuidAt(firmware, footerOffset)
  IN  IF ~footerGuid.ok THEN footerGuid
      ELSE IF footerGuid.val # FOOTER_GUID
        THEN [ok |-> FALSE, err |-> "Wrong table footer guid"]
      ELSE [ok |-> TRUE]

\* The start of getTdxMetadataOffset: the walk's first offset and tableStart.
walkStart(image) ==
  LET offset == Len(image) - 48 - 2
  IN  IF ~InView(image, offset, 2) THEN RangeError
      ELSE [ok |-> TRUE, offset |-> offset,
            tableStart |-> Len(image) - 48 - getUint16(image, offset)]

\* One iteration of the while loop of getTdxMetadataOffset at offset:
\* "found" with the metadata offset, "next" with the new offset, "missing"
\* when the loop condition fails, or "error" when an access throws.
walkStep(image, offset, tableStart) ==
  IF ~(offset > tableStart)
    THEN [kind |-> "missing", err |-> "TDX metadata offset not found"]
  ELSE
    LET entryGuid == bytesToUuidAt(image, offset - 16)
    IN  IF ~entryGuid.ok THEN [kind |-> "error", err |-> "RangeError"]
        ELSE IF entryGuid.val = METADATA_OFFSET_GUID
          THEN IF ~InView(image, offset - 16 - 2 - 4, 4)
                 THEN [kind |-> "error", err |-> "RangeError"]
                 ELSE [kind |-> "found",
                       val |-> Len(image)
                                 - getUint32(image, offset - 16 - 2 - 4)]
        ELSE IF ~InView(image, offset - 16 - 2, 2)
          THEN [kind |-> "error", err |-> "RangeError"]
        ELSE [kind |-> "next",
              offset |-> offset - getUint16(image, offset - 16 - 2)]

\* ------------------------------------------------------------------------
\* MRTD engine
\* ------------------------------------------------------------------------

\* "MEM.PAGE.ADD"
MEM_PAGE_ADD == << 77, 69, 77, 46, 80, 65, 71, 69, 46, 65, 68, 68 >>

\* "MR.EXTEND"
MR_EXTEND == << 77, 82, 46, 69, 88, 84, 69, 78, 68 >>

\* How often "for (let i = 0; i < numPages; i++)" runs, for
\* numPages = memSize / PAGE_SIZE (a fraction when memSize is unaligned).
\* Defined for sizes below 2^43: beyond, the loop pushes 2^31 records or
\* more and the call ends when memory does, which is not modelled.
pageLoopCount(memSize) ==
  IF memSize[1] < 0 THEN 0 ELSE memSize[1] + (IF memSize[2] > 0 THEN 1 ELSE 0)

\* The 128-byte record of page i: the tag, and the address at offset 16.
memPageAddRecord(section, i) ==
  WriteAt(encodeInto(MEM_PAGE_ADD, Zeros(128), 0), 16,
          U64LEOfNum(NumAdd(section.memBase, << i, 0 >>)))

\* The three parts pushed for chunk j of page i: the 128-byte record and the
\* two halves of the firmware chunk (subarray clamps to the image).
mrExtendParts(firmware, section, i, j) ==
  LET offsetVal == i * PAGE_SIZE + j * 256
      fwOffset == section.rawOffset + offsetVal
  IN  << WriteAt(encodeInto(MR_EXTEND, Zeros(128), 0), 16,
                 U64LEOfNum(NumAdd(section.memBase, Num(offsetVal)))),
         subarray(firmware.bytes, fwOffset, fwOffset + 128),
         subarray(firmware.bytes, fwOffset + 128, fwOffset + 256) >>

\* The parts one section contributes, in the order they are pushed.
sectionParts(firmware, section) ==
  LET n == pageLoopCount(section.memSize)
      adds == [i \in 1..n |-> memPageAddRecord(section, i - 1)]
      exts == IF section.extendMr
                THEN Flatten([k \in 1..(16 * n) |->
                       mrExtendParts(firmware, section,
                                     (k - 1) \div 16, (k - 1) % 16)])
                ELSE <<>>
  IN  adds \o exts

\* The byte string reproduceMrtd hashes.
mrtdPreimage(firmware) ==
  concatBytes(Flatten([k \in 1..Len(firmware.tdxMetadataSections) |->
                         sectionParts(firmware,
                                      firmware.tdxMetadataSections[k])]))

reproduceMrtd(firmware) == sha384(mrtdPreimage(firmware))

\* ------------------------------------------------------------------------
\* HOB builder
\* ------------------------------------------------------------------------

HOB_TABLE_SIZE == 56

HOB_RESOURCE_DESCRIPTOR_SIZE == 48

HOB_END_SIZE == 8

\* Inserts section x after every element whose memBase is not above x's.
RECURSIVE insertByMemBase(_, _)
insertByMemBase(sorted, x) ==
  IF sorted = <<>> THEN << x >>
  ELSE IF NumLt(x.memBase, Head(sorted).memBase) THEN << x >> \o sorted
  ELSE << Head(sorted) >> \o insertByMemBase(Tail(sorted), x)

\* Array.prototype.sort((a, b) => a.memBase - b.memBase): a stable sort.
RECURSIVE sortByMemBase(_)
sortByMemBase(s) ==
  IF s = <<>> THEN <<>>
  ELSE insertByMemBase(sortByMemBase(SubSeq(s, 1, Len(s) - 1)), s[Len(s)])

isReserved(section) ==
  section.sectionType = "TD_HOB" \/ section.sectionType = "TempMem"

\* tdxMetadataSections.filter(TD_HOB or TempMem)
RECURSIVE reservedSections(_)
reservedSections(s) ==
  IF s = <<>> THEN <<>>
  ELSE IF isReserved(Head(s)) THEN << Head(s) >> \o reservedSections(Tail(s))
  ELSE reservedSections(Tail(s))

sortedSections(tdxMetadataSections) ==
  sortByMemBase(reservedSections(tdxMetadataSections))

\* One iteration of "for (const section of sortedSections)" on the loop
\* state [memOffset, entries]; an entry is <<start, end, kind>>, kind 1 for
\* a reserved range and 0 for system memory.
hobLoopBody(st, section) ==
  LET end == NumAdd(section.memBase, section.memSize)
      gap == IF NumLt(st.memOffset, section.memBase)
               THEN << << st.memOffset, section.memBase, 0 >> >>
               ELSE <<>>
  IN  [memOffset |-> end,
       entries |-> st.entries \o gap \o << << section.memBase, end, 1 >> >>]

\* The entry pushed after the loop, if any.
hobTail(st, totalMemoryBytes) ==
  IF NumLt(st.memOffset, totalMemoryBytes)
    THEN Append(st.entries, << st.memOffset, totalMemoryBytes, 0 >>)
    ELSE st.entries

RECURSIVE hobLoop(_, _)
hobLoop(st, sections) ==
  IF sections = <<>> THEN st
  ELSE hobLoop(hobLoopBody(st, Head(sections)), Tail(sections))

\* The (start, end, kind) entries getHobHashPreimage emits.
hobEntries(tdxMetadataSections, totalMemoryBytes) ==
  hobTail(hobLoop([memOffset |-> Num(0), entries |-> <<>>],
                  sortedSections(tdxMetadataSections)),
          totalMemoryBytes)

\* The 48-byte resource descriptor of an entry.
resourceDescriptor(entry) ==
  LET resourceType == IF entry[3] = 1 THEN 0 ELSE 7
  IN  U16LE(3) \o U16LE(HOB_RESOURCE_DESCRIPTOR_SIZE) \o Zeros(20)
        \o U32LE(resourceType) \o U32LE(7)
        \o U64LEOfNum(entry[1]) \o U64LEOfNum(NumSub(entry[2], entry[1]))

RECURSIVE writeDescriptors(_, _, _)
writeDescriptors(hob, entries, k) ==
  IF k > Len(entries) THEN hob
  ELSE writeDescriptors(
         WriteAt(hob, HOB_TABLE_SIZE + 48 * (k - 1),
                 resourceDescriptor(entries[k])),
         entries, k + 1)

\* The TD_HOB section the buffer is sized and based on (Array.find).
findHobSection(tdxMetadataSections) ==
  LET idx == { k \in 1..Len(tdxMetadataSections) :
                 tdxMetadataSections[k].sectionType = "TD_HOB" }
  IN  IF idx = {} THEN [found |-> FALSE]
      ELSE [found |-> TRUE,
            section |-> tdxMetadataSections[
                          CHOOSE k \in idx : \A m \in idx : k <= m]]

\* The builder returning the buffer up to the end of the END HOB.
hobBufferWithEnd(hobSection, entries) ==
  LET hugeSize == Len(hobSection.memSize) = 3
      size == IF hugeSize THEN 0
              ELSE hobSection.memSize[1] * 4096 + hobSection.memSize[2]
      preimageEnd == HOB_TABLE_SIZE + 48 * Len(entries)
      hobOffset == preimageEnd + HOB_END_SIZE
      h0 == Zeros(size)
      h1 == WriteAt(WriteAt(WriteAt(h0, 0, U16LE(1)), 2,
                            U16LE(HOB_TABLE_SIZE)), 8, U32LE(9))
      h2 == writeDescriptors(h1, entries, 1)
      h3 == WriteAt(WriteAt(h2, preimageEnd, U16LE(65535)), preimageEnd + 2,
                    U16LE(HOB_END_SIZE))
      h4 == WriteAt(h3, 48, U64LEOfNum(NumAdd(hobSection.memBase,
                                              Num(hobOffset))))
  IN  IF hugeSize \/ size < preimageEnd + 4 \/ size < HOB_TABLE_SIZE
        THEN RangeError
        ELSE [ok |-> TRUE, val |-> subarray(h4, 0, hobOffset), hob |-> h4]

\* The buffer writes and the final subarray, given the entries: the DataView
\* throws as soon as a write passes the end of the memSize-byte buffer, and
\* no buffer of 2^43 bytes or more can be allocated (a RangeError too). hob
\* is the whole buffer the returned subarray is a view of.
hobBuffer(hobSection, entries) ==
  LET hugeSize == Len(hobSection.memSize) = 3
      size == IF hugeSize THEN 0
              ELSE hobSection.memSize[1] * 4096 + hobSection.memSize[2]
      preimageEnd == HOB_TABLE_SIZE + 48 * Len(entries)
      hobOffset == preimageEnd + HOB_END_SIZE
      h0 == Zeros(size)
      h1 == WriteAt(WriteAt(WriteAt(h0, 0, U16LE(1)), 2,
                            U16LE(HOB_TABLE_SIZE)), 8, U32LE(9))
      h2 == writeDescriptors(h1, entries, 1)
      h3 == WriteAt(WriteAt(h2, preimageEnd, U16LE(65535)), preimageEnd + 2,
                    U16LE(HOB_END_SIZE))
      h4 == WriteAt(h3, 48, U64LEOfNum(NumAdd(hobSection.memBase,
                                              Num(hobOffset))))
  IN  IF hugeSize \/ size < preimageEnd + 4 \/ size < HOB_TABLE_SIZE
        THEN RangeError
        ELSE [ok |-> TRUE, val |-> subarray(h4, 0, preimageEnd), hob |-> h4]

getHobHashPreimage(tdxMetadataSections, totalMemoryBytes) ==
  LET hobSection == findHobSection(tdxMetadataSections)
  IN  IF ~hobSection.found
        THEN [ok |-> FALSE, err |-> "TD_HOB section not found"]
        ELSE hobBuffer(hobSection.section,
                       hobEntries(tdxMetadataSections, totalMemoryBytes))

\* ------------------------------------------------------------------------
\* ACPI parser, RSDP and table-loader serializer
\* ------------------------------------------------------------------------

SIG_FACP == << 70, 65, 67, 80 >>

SIG_RSDT == << 82, 83, 68, 84 >>

SIG_FACS == << 70, 65, 67, 83 >>

\* "etc/acpi/rsdp"
FILE_RSDP == << 101, 116, 99, 47, 97, 99, 112, 105, 47, 114, 115, 100, 112 >>

\* "etc/acpi/tables"
FILE_TABLES ==
  << 101, 116, 99, 47, 97, 99, 112, 105, 47, 116, 97, 98, 108, 101, 115 >>

\* One pass of the while loop of parseAcpiTables at offset: "stop" when the
\* loop ends, or "push" with the table recorded and the next offset.
acpiStep(bytes, offset) ==
  IF ~(offset < Len(bytes)) \/ offset + 8 > Len(bytes)
    THEN [kind |-> "stop"]
  ELSE IF utf8decode(subarray(bytes, offset, offset + 4)) = << 0, 0, 0, 0 >>
    THEN [kind |-> "stop"]
  ELSE [kind |-> "push",
        table |-> [signature |-> utf8decode(subarray(bytes, offset, offset + 4)),
                   offset |-> offset,
                   length |-> getUint32(bytes, offset + 4)],
        offset |-> offset + getUint32(bytes, offset + 4)]

\* parseAcpiTables(bytes) from offset on. A table of length 0 leaves the
\* offset where it is, so the loop pushes the same table without end: the
\* call does not return ("hang").
RECURSIVE acpiLoop(_, _, _)
acpiLoop(bytes, offset, result) ==
  LET st == acpiStep(bytes, offset)
  IN  IF st.kind = "stop" THEN [ok |-> TRUE, val |-> result]
      ELSE IF st.offset = offset THEN [ok |-> FALSE, err |-> "hang"]
      ELSE acpiLoop(bytes, st.offset, Append(result, st.table))

parseAcpiTables(bytes) == acpiLoop(bytes, 0, <<>>)

\* The offset of the first RSDT table, or 0.
RECURSIVE firstRsdtOffset(_)
firstRsdtOffset(tables) ==
  IF tables = <<>> THEN 0
  ELSE IF Head(tables).signature = SIG_RSDT THEN Head(tables).offset
  ELSE firstRsdtOffset(Tail(tables))

\* The RSDP with the OEM id "BOCHS" followed by NUL in place of the space.
getRsdpNul(tables) ==
  << 82, 83, 68, 32, 80, 84, 82, 32, 0, 66, 79, 67, 72, 83, 0, 0 >>
    \o U32LE(firstRsdtOffset(tables))

getRsdp(tables) ==
  LET r0 == Zeros(20)
      r1 == encodeInto(<< 82, 83, 68, 32, 80, 84, 82, 32 >>, r0, 0)
      r2 == WriteAt(r1, 8, << 0 >>)
      r3 == encodeInto(<< 66, 79, 67, 72, 83, 32 >>, r2, 9)
      r4 == WriteAt(r3, 15, << 0 >>)
  IN  WriteAt(r4, 16, U32LE(firstRsdtOffset(tables)))

serializeAllocate(filename, align, zone) ==
  LET r1 == WriteAt(Zeros(128), 0, U32LE(1))
      r2 == encodeInto(filename, r1, 4)
      r3 == WriteAt(r2, 60, U32LE(align))
  IN  WriteAt(r3, 64, << zone % 256 >>)

serializeAddPointer(destFile, srcFile, offset, size) ==
  LET r1 == WriteAt(Zeros(128), 0, U32LE(2))
      r2 == encodeInto(destFile, r1, 4)
      r3 == encodeInto(srcFile, r2, 60)
      r4 == WriteAt(r3, 116, U32LE(offset))
  IN  WriteAt(r4, 120, << size % 256 >>)

serializeAddChecksum(filename, offset, start, length) ==
  LET r1 == WriteAt(Zeros(128), 0, U32LE(3))
      r2 == encodeInto(filename, r1, 4)
      r3 == WriteAt(r2, 60, U32LE(offset))
      r4 == WriteAt(r3, 64, U32LE(start))
  IN  WriteAt(r4, 68, U32LE(length))

\* The commands one table contributes to the loader.
tableCommands(table) ==
  (IF table.signature = SIG_FACP
     THEN << serializeAddPointer(FILE_TABLES, FILE_TABLES, table.offset + 36, 4),
             serializeAddPointer(FILE_TABLES, FILE_TABLES, table.offset + 40, 4),
             serializeAddPointer(FILE_TABLES, FILE_TABLES, table.offset + 140, 8) >>
     ELSE <<>>)
  \o (IF table.signature = SIG_RSDT
        THEN << serializeAddPointer(FILE_TABLES, FILE_TABLES, table.offset + 36, 4),
                serializeAddPointer(FILE_TABLES, FILE_TABLES, table.offset + 40, 4),
                serializeAddPointer(FILE_TABLES, FILE_TABLES, table.offset + 44, 4),
                serializeAddPointer(FILE_TABLES, FILE_TABLES, table.offset + 48, 4) >>
        ELSE <<>>)
  \o (IF table.signature # SIG_FACS
        THEN << serializeAddChecksum(FILE_TABLES, table.offset + 9,
                                     table.offset, table.length) >>
        ELSE <<>>)

\* The command list of getTableLoader, before it is padded.
loaderCommands(tables) ==
  << serializeAllocate(FILE_RSDP, 16, 2),
     serializeAllocate(FILE_TABLES, 64, 1) >>
  \o Flatten([k \in 1..Len(tables) |-> tableCommands(tables[k])])
  \o << serializeAddPointer(FILE_RSDP, FILE_TABLES, 16, 4),
        serializeAddChecksum(FILE_RSDP, 8, 0, 20) >>

getTableLoader(tables) == concatBytesLen(loaderCommands(tables), 4096)

\* ------------------------------------------------------------------------
\* PE/COFF parser and measurement preimage
\* ------------------------------------------------------------------------

\* "PE\0\0"
PE_SIGNATURE == << 80, 69, 0, 0 >>

\* ".linux\0\0", ".initrd\0", ".cmdline"
NAME_LINUX == << 46, 108, 105, 110, 117, 120, 0, 0 >>

NAME_INITRD == << 46, 105, 110, 105, 116, 114, 100, 0 >>

NAME_CMDLINE == << 46, 99, 109, 100, 108, 105, 110, 101 >>

\* bytes.subarray(begin, end) as the range <<start, end>> of 0-based file
\* positions it views (start = byteOffset, end - start = byteLength).
viewOf(bytes, begin, end) ==
  LET n == Len(bytes)
      b == IF begin < 0 THEN Max(n + begin, 0) ELSE Min(begin, n)
      e == IF end < 0 THEN Max(n + end, 0) ELSE Min(end, n)
  IN  << b, Max(b, e) >>

\* The bytes a range views.
viewBytes(bytes, v) == SubSeq(bytes, v[1] + 1, v[2])

PeError(msg) == [ok |-> FALSE, err |-> msg]

\* The section loop of parsePe from section i on.
RECURSIVE parsePeSections(_, _, _, _, _)
parsePeSections(bytes, sectionHeadersStart, numberOfSections, i, sections) ==
  LET sectionHeaderOffset == sectionHeadersStart + i * 40
      virtualSize == getUint32(bytes, sectionHeaderOffset + 8)
      sizeOfRawData == getUint32(bytes, sectionHeaderOffset + 16)
      pointerToRawData == getUint32(bytes, sectionHeaderOffset + 20)
      actualSize == Min(virtualSize, sizeOfRawData)
  IN  IF ~(i < numberOfSections) THEN [ok |-> TRUE, val |-> sections]
      ELSE IF sectionHeaderOffset + 40 > Len(bytes)
        THEN PeError("Invalid PE file: incomplete section header.")
      ELSE IF pointerToRawData + actualSize > Len(bytes)
        THEN PeError("Invalid PE file: section exceeds file size.")
      ELSE parsePeSections(bytes, sectionHeadersStart, numberOfSections, i + 1,
             Append(sections,
               [name |-> utf8decode(subarray(bytes, sectionHeaderOffset,
                                             sectionHeaderOffset + 8)),
                body |-> viewOf(bytes, pointerToRawData,
                                pointerToRawData + actualSize),
                rawBody |-> viewOf(bytes, pointerToRawData,
                                   pointerToRawData + sizeOfRawData)]))

parsePe(bytes) ==
  IF Len(bytes) < 64
    THEN PeError("Invalid PE file: too small for DOS header.")
  ELSE
  LET e_lfanew == getUint32(bytes, 60)
      fileHeaderOffset == e_lfanew + 4
      optionalHeaderOffset == fileHeaderOffset + 20
  IN
  IF e_lfanew + 4 > Len(bytes)
    THEN PeError("Invalid PE file: incomplete PE header.")
  ELSE IF utf8decode(subarray(bytes, e_lfanew, e_lfanew + 4)) # PE_SIGNATURE
    THEN PeError("Invalid PE signature")
  ELSE IF ~InView(bytes, fileHeaderOffset + 2, 2)
            \/ ~InView(bytes, fileHeaderOffset + 16, 2)
            \/ ~InView(bytes, optionalHeaderOffset, 2)
    THEN RangeError
  ELSE
  LET numberOfSections == getUint16(bytes, fileHeaderOffset + 2)
      sizeOfOptionalHeader == getUint16(bytes, fileHeaderOffset + 16)
      magic == getUint16(bytes, optionalHeaderOffset)
      fixedOptionalHeaderSize == IF magic = 267 THEN 96 ELSE 112
  IN
  IF magic # 267 /\ magic # 523
    THEN PeError("Unknown Optional Header Magic")
  ELSE IF ~InView(bytes, optionalHeaderOffset + 60, 4)
            \/ ~InView(bytes, optionalHeaderOffset
                                + fixedOptionalHeaderSize - 4, 4)
    THEN RangeError
  ELSE
  LET sections ==
        parsePeSections(bytes, optionalHeaderOffset + sizeOfOptionalHeader,
                        numberOfSections, 0, <<>>)
  IN  IF ~sections.ok THEN sections
      ELSE [ok |-> TRUE,
            optionalHeader |->
              [sizeOfHeaders |-> getUint32(bytes, optionalHeaderOffset + 60),
               numberOfRvaAndSizes |->
                 getUint32(bytes, optionalHeaderOffset
                                    + fixedOptionalHeaderSize - 4),
               offset |-> optionalHeaderOffset,
               fixedOptionalHeaderSize |-> fixedOptionalHeaderSize],
            sections |-> sections.val]

\* sections.find((x) => x.name === name): the first match, or none.
findSection(sections, name) ==
  LET idx == { k \in 1..Len(sections) : sections[k].name = name }
  IN  IF idx = {} THEN [found |-> FALSE]
      ELSE [found |-> TRUE,
            section |-> sections[CHOOSE k \in idx : \A m \in idx : k <= m]]

\* Inserts view v after every view whose byteOffset is not above v's.
RECURSIVE insertByOffset(_, _)
insertByOffset(sorted, v) ==
  IF sorted = <<>> THEN << v >>
  ELSE IF v[1] < Head(sorted)[1] THEN << v >> \o sorted
  ELSE << Head(sorted) >> \o insertByOffset(Tail(sorted), v)

\* validSections: the rawBody views of non-zero length, stably sorted by
\* byteOffset.
RECURSIVE validSections(_)
validSections(sections) ==
  IF sections = <<>> THEN <<>>
  ELSE LET s == sections[Len(sections)]
           rest == validSections(SubSeq(sections, 1, Len(sections) - 1))
       IN  IF s.rawBody[2] - s.rawBody[1] # 0
             THEN insertByOffset(rest, s.rawBody)
             ELSE rest

RECURSIVE SumViews(_)
SumViews(vs) ==
  IF vs = <<>> THEN 0 ELSE (Head(vs)[2] - Head(vs)[1]) + SumViews(Tail(vs))

\* The header hashed whole, checksum and directory entry included.
peHeaderPartsWhole(bytes, optionalHeader) ==
  [ok |-> TRUE, val |-> << viewOf(bytes, 0, optionalHeader.sizeOfHeaders) >>]

\* The header part of the preimage: the views pushed before the sections.
peHeaderParts(bytes, optionalHeader) ==
  LET checksumFieldOffset == optionalHeader.offset + 64
      afterChecksumOffset == checksumFieldOffset + 4
      certDirEntryOffset == optionalHeader.offset
                              + optionalHeader.fixedOptionalHeaderSize + 4 * 8
  IN  IF checksumFieldOffset > Len(bytes)
        THEN PeError("Invalid PE file: Checksum field offset exceeds file size.")
      ELSE IF optionalHeader.numberOfRvaAndSizes <= 4
        THEN [ok |-> TRUE,
              val |-> << viewOf(bytes, 0, checksumFieldOffset),
                         viewOf(bytes, afterChecksumOffset,
                                optionalHeader.sizeOfHeaders) >>]
      ELSE IF certDirEntryOffset > optionalHeader.sizeOfHeaders
        THEN PeError("Invalid PE file: Certificate Directory entry offset exceeds header size.")
      ELSE [ok |-> TRUE,
            val |-> << viewOf(bytes, 0, checksumFieldOffset),
                       viewOf(bytes, afterChecksumOffset, certDirEntryOffset),
                       viewOf(bytes, certDirEntryOffset + 8,
                              optionalHeader.sizeOfHeaders) >>]

\* certSize as read when the image extends beyond the hashed bytes.
peCertSize(bytes, optionalHeader) ==
  LET certDirSizeOffset == optionalHeader.offset
                             + optionalHeader.fixedOptionalHeaderSize
                             + 4 * 8 + 4
  IN  IF optionalHeader.numberOfRvaAndSizes > 4
           /\ certDirSizeOffset + 4 <= Len(bytes)
        THEN getUint32(bytes, certDirSizeOffset)
        ELSE 0

\* The trailing part without the throw for a file that is too short.
peTrailingPartsUnchecked(bytes, optionalHeader, sumOfBytesHashed) ==
  IF Len(bytes) > sumOfBytesHashed + peCertSize(bytes, optionalHeader)
    THEN [ok |-> TRUE,
          val |-> << viewOf(bytes, sumOfBytesHashed,
                            Len(bytes) - peCertSize(bytes, optionalHeader)) >>]
    ELSE [ok |-> TRUE, val |-> <<>>]

\* The trailing part: the view pushed after the sections, if any.
peTrailingParts(bytes, optionalHeader, sumOfBytesHashed) ==
  LET imageSize == Len(bytes)
      certSize == peCertSize(bytes, optionalHeader)
  IN  IF ~(imageSize > sumOfBytesHashed) THEN [ok |-> TRUE, val |-> <<>>]
      ELSE IF imageSize > sumOfBytesHashed + certSize
        THEN [ok |-> TRUE,
              val |-> << viewOf(bytes, sumOfBytesHashed,
                                imageSize - certSize) >>]
      ELSE IF imageSize < sumOfBytesHashed + certSize
        THEN PeError("Unsupported: File size is less than SUM_OF_BYTES_HASHED + CertSize.")
      ELSE [ok |-> TRUE, val |-> <<>>]

\* hashParts once the header views, the section views and the trailing view
\* are known: a throw of the header part comes first.
peJoinParts(header, bodies, trailing) ==
  IF ~header.ok THEN header
  ELSE IF ~trailing.ok THEN trailing
  ELSE [ok |-> TRUE, val |-> header.val \o bodies \o trailing.val,
        nHeader |-> Len(header.val)]

peHashPartsOf(bytes, optionalHeader, bodies) ==
  peJoinParts(peHeaderParts(bytes, optionalHeader), bodies,
              peTrailingParts(bytes, optionalHeader,
                              optionalHeader.sizeOfHeaders + SumViews(bodies)))

peHashPartsOfPe(bytes, pe) ==
  IF ~pe.ok THEN pe
  ELSE peHashPartsOf(bytes, pe.optionalHeader, validSections(pe.sections))

\* hashParts of getPeHashPreimage as views of the image, in push order.
peHashParts(bytes) == peHashPartsOfPe(bytes, parsePe(bytes))

\* concatBytes(hashParts)
peConcatParts(bytes, parts) ==
  IF ~parts.ok THEN parts
  ELSE [ok |-> TRUE,
        val |-> concatBytes([k \in 1..Len(parts.val) |->
                               viewBytes(bytes, parts.val[k])])]

getPeHashPreimage(bytes) == peConcatParts(bytes, peHashParts(bytes))

\* ------------------------------------------------------------------------
\* QEMU kernel header patcher
\* ------------------------------------------------------------------------

\* 0x20000 + 0x8000
ACPI_DATA_SIZE == 163840

\* "HdrS"
HDRS_MAGIC == << 72, 100, 114, 83 >>

\* " initrd=initrd"
INITRD_ARG ==
  << 32, 105, 110, 105, 116, 114, 100, 61, 105, 110, 105, 116, 114, 100 >>

\* The state threaded through the writes of qemuPatchKernel: the buffer so
\* far, and whether a write or check has thrown.
patchThrow(st, msg) == [kernel |-> st.kernel, ok |-> FALSE, err |-> msg]

\* view.setUint16 / view.setUint32: a RangeError outside the buffer.
patchSet(st, off, data) ==
  IF ~st.ok THEN st
  ELSE IF ~InView(st.kernel, off, Len(data)) THEN patchThrow(st, "RangeError")
  ELSE [st EXCEPT !.kernel = WriteAt(st.kernel, off, data)]

\* kernel[off] = v: an index outside a typed array is ignored.
patchSetByte(st, off, v) ==
  IF ~st.ok \/ off >= Len(st.kernel) THEN st
  ELSE [st EXCEPT !.kernel = WriteAt(st.kernel, off, << v % 256 >>)]

\* kernel[off], undefined (0 under the bit operators) outside the array.
kernelByte(kernel, off) == IF off < Len(kernel) THEN kernel[off + 1] ELSE 0

\* x ^ 0x80 on a byte: the bit is flipped, not set.
Xor80(b) == IF b >= 128 THEN b - 128 ELSE b + 128

\* x | 0x80 on a byte.
Or80(b) == IF b >= 128 THEN b ELSE b + 128

\* lowmem and below4gMemSize.
lowmemOf(ramSize) ==
  IF NumLe(<< 720896, 0 >>, ramSize) THEN << 524288, 0 >> ELSE << 720896, 0 >>

\* below4gMemSize without the cap at lowmem.
below4gUncapped(ramSize) == ramSize

below4gMemSizeOf(ramSize) ==
  IF NumLe(lowmemOf(ramSize), ramSize) THEN lowmemOf(ramSize) ELSE ramSize

\* protocol, or a RangeError when the header ends right after the magic.
kernelProtocol(kernel) ==
  IF utf8decode(subarray(kernel, 514, 518)) # HDRS_MAGIC
    THEN [ok |-> TRUE, val |-> 0]
  ELSE IF ~InView(kernel, 518, 2) THEN RangeError
  ELSE [ok |-> TRUE, val |-> getUint16(kernel, 518)]

\* initrdMax before the cap.
initrdMaxRaw(kernel, protocol) ==
  IF protocol >= 524
    THEN IF ~InView(kernel, 566, 2) THEN RangeError
         ELSE IF (getUint16(kernel, 566) \div 2) % 2 = 1
           THEN [ok |-> TRUE, val |-> << 1048575, 4095 >>]
         ELSE IF ~InView(kernel, 556, 4) THEN RangeError
         ELSE [ok |-> TRUE, val |-> getUint32Num(kernel, 556)]
  ELSE IF protocol >= 515
    THEN IF ~InView(kernel, 556, 4) THEN RangeError
         ELSE [ok |-> TRUE, val |-> getUint32Num(kernel, 556)]
  ELSE [ok |-> TRUE, val |-> << 229375, 4095 >>]

\* initrdMax capped at below4gMemSize - ACPI_DATA_SIZE - 1.
initrdMaxOf(raw, below4gMemSize) ==
  IF NumLe(NumSub(below4gMemSize, Num(ACPI_DATA_SIZE)), raw)
    THEN NumSub(below4gMemSize, Num(ACPI_DATA_SIZE + 1))
    ELSE raw

\* (software.cmdline || "").length
cmdlineLength(software) ==
  IF software.hasCmdline THEN Len(software.cmdline) ELSE 0

\* Whether the kernel is loaded low: protocol < 0x202 or LOADED_HIGH unset.
isLow(kernel, protocol) == protocol < 514 \/ kernelByte(kernel, 529) % 2 = 0

realAddrOf(low) == IF low THEN 589824 ELSE 65536

cmdlineAddrOf(low, cmdlineSize) == IF low THEN 630784 - cmdlineSize ELSE 131072

\* ((software.cmdline || "").length + 16) & ~15
cmdlineSizeOf(software) == ((cmdlineLength(software) + 16) \div 16) * 16

\* The writes of the command-line address.
patchCmdlineAddr(st, protocol, cmdlineAddr, realAddr) ==
  IF protocol >= 514
    THEN patchSet(st, 552, U32LE(cmdlineAddr))
    ELSE patchSet(patchSet(st, 32, U16LE(41791)),
                  34, U16LE(cmdlineAddr - realAddr))

\* The loader type written one byte further, at 0x212.
patchLoaderTypeShifted(st, protocol) ==
  IF protocol >= 512 THEN patchSetByte(st, 530, 176) ELSE st

\* kernel[0x210] = 0xb0
patchLoaderType(st, protocol) ==
  IF protocol >= 512 THEN patchSetByte(st, 528, 176) ELSE st

\* kernel[0x211] |= 0x80 and the heap end pointer.
patchLoadFlags(st, protocol, cmdlineAddr, realAddr) ==
  IF protocol >= 513
    THEN patchSet(patchSetByte(st, 529, Or80(kernelByte(st.kernel, 529))),
                  548, U16LE(cmdlineAddr - realAddr - 512))
    ELSE st

\* The header writes that precede the initrd part.
patchHeader(kernel, protocol, cmdlineAddr, realAddr) ==
  patchLoadFlags(
    patchLoaderType(
      patchCmdlineAddr([kernel |-> kernel, ok |-> TRUE], protocol,
                       cmdlineAddr, realAddr),
      protocol),
    protocol, cmdlineAddr, realAddr)

\* initrdMax - software.initrd.length without the mask.
initrdAddrUnmasked(initrdMax, length) == NumSub(initrdMax, Num(length))

\* (initrdMax - software.initrd.length) & ~4095: the low 12 bits cleared,
\* as the signed 32-bit value that & gives (negative from 2^31 on).
initrdAddrOf(initrdMax, length) ==
  LET page == NumSub(initrdMax, Num(length))[1]
  IN  << IF page >= 524288 THEN page - 1048576 ELSE page, 0 >>

\* The initrd part of the patch with initrd.length > initrdMax as the test.
patchInitrdStrict(st, software, protocol, initrdMax) ==
  IF ~st.ok \/ ~software.hasInitrd THEN st
  ELSE IF protocol < 512
    THEN patchThrow(st, "RAM disk is already in kernel image or kernel is too old")
  ELSE IF NumLt(initrdMax, Num(Len(software.initrd)))
    THEN patchThrow(st, "RAM disk is too large")
  ELSE patchSet(patchSet(st, 536,
                         U32LEOfNum(initrdAddrOf(initrdMax,
                                                 Len(software.initrd)))),
                540, U32LE(Len(software.initrd)))

\* The initrd part of the patch.
patchInitrd(st, software, protocol, initrdMax) ==
  IF ~st.ok \/ ~software.hasInitrd THEN st
  ELSE IF protocol < 512
    THEN patchThrow(st, "RAM disk is already in kernel image or kernel is too old")
  ELSE IF NumLe(initrdMax, Num(Len(software.initrd)))
    THEN patchThrow(st, "RAM disk is too large")
  ELSE patchSet(patchSet(st, 536,
                         U32LEOfNum(initrdAddrOf(initrdMax,
                                                 Len(software.initrd)))),
                540, U32LE(Len(software.initrd)))

\* The patch once everything it reads from the header has been read.
patchWrites(software, protocol, low, initrdMax) ==
  patchInitrd(patchHeader(software.kernel, protocol,
                          cmdlineAddrOf(low, cmdlineSizeOf(software)),
                          realAddrOf(low)),
              software, protocol, initrdMax)

patchWithLimit(software, below4gMemSize, protocol, raw) ==
  IF ~raw.ok
    THEN patchThrow([kernel |-> software.kernel], raw.err)
    ELSE patchWrites(software, protocol, isLow(software.kernel, protocol),
                     initrdMaxOf(raw.val, below4gMemSize))

patchWithProtocol(software, below4gMemSize, protocol) ==
  IF ~protocol.ok
    THEN patchThrow([kernel |-> software.kernel], protocol.err)
    ELSE patchWithLimit(software, below4gMemSize, protocol.val,
                        initrdMaxRaw(software.kernel, protocol.val))

\* qemuPatchKernel(software, totalMemoryBytes): the kernel buffer as the call
\* leaves it, and whether it returned (ok) or threw (err).
qemuPatchKernel(software, totalMemoryBytes) ==
  patchWithProtocol(software, below4gMemSizeOf(totalMemoryBytes),
                    kernelProtocol(software.kernel))

\* ------------------------------------------------------------------------
\* Event-log generator: preimages and event construction
\* ------------------------------------------------------------------------

EFI_ACTIONS ==
  << << 67, 97, 108, 108, 105, 110, 103, 32, 69, 70, 73, 32, 65, 112, 112,
        108, 105, 99, 97, 116, 105, 111, 110, 32, 102, 114, 111, 109, 32, 66,
        111, 111, 116, 32, 79, 112, 116, 105, 111, 110 >>,
     << 69, 120, 105, 116, 32, 66, 111, 111, 116, 32, 83, 101, 114, 118, 105,
        99, 101, 115, 32, 73, 110, 118, 111, 99, 97, 116, 105, 111, 110 >>,
     << 69, 120, 105, 116, 32, 66, 111, 111, 116, 32, 83, 101, 114, 118, 105,
        99, 101, 115, 32, 82, 101, 116, 117, 114, 110, 101, 100, 32, 119, 105,
        116, 104, 32, 83, 117, 99, 99, 101, 115, 115 >> >>

EFI_ACTION_NAMES ==
  << "Calling EFI Application from Boot Option",
     "Exit Boot Services Invocation",
     "Exit Boot Services Returned with Success" >>

\* The u64 of getEmptyDriverConfigVariable for the small lengths in use.
U64LE(v) == U32LE(v) \o << 0, 0, 0, 0 >>

\* The variable without the eight bytes of the data length.
getEmptyDriverConfigVariableShort(uuid, name) ==
  concatBytes(<< uuidToBytes(uuid), U64LE(Len(name)), utf16LeEncode(name) >>)

getEmptyDriverConfigVariable(uuid, name) ==
  concatBytes(<< uuidToBytes(uuid),
                 WriteAt(Zeros(16), 0, U64LE(Len(name))),
                 utf16LeEncode(name) >>)

getUiAppBootOption ==
  concatBytes(<< << 9, 1, 0, 0, 44, 0 >>,
                 utf16LeEncode(<< 85, 105, 65, 112, 112, 0 >>),
                 << 4, 7, 20, 0 >>,
                 uuidToBytes(<< 55, 99, 98, 56, 98, 100, 99, 57, 45, 102, 56,
                                101, 98, 45, 52, 102, 51, 52, 45, 97, 97, 101,
                                97, 45, 51, 101, 101, 52, 97, 102, 54, 53, 49,
                                54, 97, 49 >>),
                 << 4, 6, 20, 0 >>,
                 uuidToBytes(<< 52, 54, 50, 99, 97, 97, 50, 49, 45, 55, 54,
                                49, 52, 45, 52, 53, 48, 51, 45, 56, 51, 54,
                                101, 45, 56, 97, 98, 54, 102, 52, 54, 54, 50,
                                51, 51, 49 >>),
                 << 127, 255, 4, 0 >> >>)

\* addEvent: the event pushed for a preimage.
addEvent(evs, name, type, register, metadata, preimage) ==
  Append(evs, [name |-> name, type |-> type, register |-> register,
               metadata |-> metadata, digest |-> sha384(preimage)])

\* A CFV loop that takes the boot firmware volume for a CFV as well.
isCfvOrBfv(section) ==
  section.sectionType = "CFV" \/ section.sectionType = "BFV"

\* The test of the CFV loop.
isCfv(section) == section.sectionType = "CFV"

\* The preimage of a CFV event.
cfvPreimage(firmware, section) ==
  subarray(firmware.bytes, section.rawOffset,
           section.rawOffset + section.rawSize)

\* A section scan that never finds .linux.
findNoSection(pe) == [found |-> FALSE]

\* kernelPe.sections.find((x) => x.name === ".linux\0\0")
findLinuxSection(pe) == findSection(pe.sections, NAME_LINUX)

\* (initrd, cmdline) as determined after the second separator; absent
\* stands for null / undefined.
Absent == [present |-> FALSE]

Present(v) == [present |-> TRUE, val |-> v]

eventInitrd(software, pe, isUki) ==
  IF isUki
    THEN LET sec == findSection(pe.sections, NAME_INITRD)
         IN  IF sec.found
               THEN Present(viewBytes(software.kernel, sec.section.body))
               ELSE Absent
    ELSE IF software.hasInitrd THEN Present(software.initrd) ELSE Absent

eventCmdline(software, pe, isUki) ==
  IF isUki
    THEN LET sec == findSection(pe.sections, NAME_CMDLINE)
         IN  IF sec.found
               THEN Present(utf8decode(viewBytes(software.kernel,
                                                 sec.section.body)))
               ELSE Absent
    ELSE IF software.hasCmdline /\ software.cmdline # <<>>
           THEN Present(software.cmdline
                          \o (IF software.hasInitrd THEN INITRD_ARG ELSE <<>>))
           ELSE Absent

\* A fold that hashes digest || register, the two operands exchanged.
extendRegisterDigestFirst(regs, ev) ==
  [regs EXCEPT ![ev.register + 1] =
     sha384(concatBytes(<< ev.digest, regs[ev.register + 1] >>))]

\* One pass of the fold of reproduceRtmr.
extendRegister(regs, ev) ==
  [regs EXCEPT ![ev.register + 1] =
     sha384(concatBytes(<< regs[ev.register + 1], ev.digest >>))]

\* ------------------------------------------------------------------------
\* Inputs: byte images the operations are run on
\* ------------------------------------------------------------------------

\* How many CFV sections a firmware of the input set holds at most, and how
\* often reproduceRtmr / reproduceMrtd are called on one TrustDomain.
MaxCfv == 2

MaxCalls == 2

\* How many tables an exploration of parseAcpiTables holds at most.
MaxTables == 30

\* Filler for the bytes of an image no field is written to.
Fill(k) == (k * 7 + 3) % 251

FillBytes(n) == [i \in 1..n |-> Fill(i - 1)]

\* A 40-byte section header.
SectionHeader(sec) ==
  WriteAt(WriteAt(WriteAt(WriteAt(Zeros(40), 0, sec.name),
                          8, U32LE(sec.virtualSize)),
                  16, U32LE(sec.sizeOfRawData)),
          20, U32LE(sec.pointerToRawData))

RECURSIVE WriteSectionHeaders(_, _, _, _)
WriteSectionHeaders(img, start, sections, k) ==
  IF k > Len(sections) THEN img
  ELSE WriteSectionHeaders(
         WriteAt(img, start + 40 * (k - 1), SectionHeader(sections[k])),
         start, sections, k + 1)

\* A PE image of p.size bytes with its PE header at 0x40: optional-header
\* magic p.magic, p.numDirs data directories (numberOfRvaAndSizes), the
\* given sizeOfHeaders, certificate size and section headers.
PeImage(p) ==
  LET fixed == IF p.magic = 267 THEN 96 ELSE 112
      opt == 88
      i0 == FillBytes(p.size)
      i1 == WriteAt(i0, 60, U32LE(64))
      i2 == WriteAt(i1, 64, PE_SIGNATURE)
      i3 == WriteAt(i2, 70, U16LE(Len(p.sections)))
      i4 == WriteAt(i3, 84, U16LE(fixed + 8 * p.numDirs))
      i5 == WriteAt(i4, opt, U16LE(p.magic))
      i6 == WriteAt(i5, opt + 60, U32LE(p.sizeOfHeaders))
      i7 == WriteAt(i6, opt + fixed - 4, U32LE(p.numDirs))
      i8 == IF p.numDirs > 4
              THEN WriteAt(i7, opt + fixed + 32, U32LE(0) \o U32LE(p.certSize))
              ELSE i7
  IN  WriteSectionHeaders(i8, opt + fixed + 8 * p.numDirs, p.sections, 1)

\* The Linux boot-protocol header fields the patcher reads.
SetupHeader(img, h) ==
  LET k1 == IF h.hdrs THEN WriteAt(img, 514, HDRS_MAGIC)
                      ELSE WriteAt(img, 514, << 0, 0, 0, 0 >>)
      k2 == WriteAt(k1, 518, U16LE(h.protocol))
      k3 == WriteAt(k2, 529, << h.loadflags >>)
      k4 == WriteAt(k3, 556, h.initrdAddrMax)
  IN  WriteAt(k4, 566, U16LE(h.xlf))

Sec(name, virtualSize, sizeOfRawData, pointerToRawData) ==
  [name |-> name, virtualSize |-> virtualSize,
   sizeOfRawData |-> sizeOfRawData, pointerToRawData |-> pointerToRawData]

\* ".text\0\0\0"
NAME_TEXT == << 46, 116, 101, 120, 116, 0, 0, 0 >>

\* A plain (non-UKI) kernel: headers of 0x240 bytes, one .text section of 16
\* bytes and 8 bytes of trailing data.
PlainKernel(h) ==
  SetupHeader(PeImage([size |-> 600, magic |-> 523, numDirs |-> 6,
                       sizeOfHeaders |-> 576, certSize |-> 0,
                       sections |-> << Sec(NAME_TEXT, 16, 16, 576) >>]), h)

\* The smallest PE32 image parsePe accepts: headers only.
InnerKernel ==
  PeImage([size |-> 184, magic |-> 267, numDirs |-> 0, sizeOfHeaders |-> 184,
           certSize |-> 0, sections |-> <<>>])

\* A UKI: a .linux section holding InnerKernel (192 raw bytes, 184 virtual)
\* and, when full, .initrd (5 of 8 bytes) and .cmdline ("a=b", 3 of 8).
UkiKernel(full) ==
  LET secs == IF full
                THEN << Sec(NAME_CMDLINE, 3, 8, 776),
                        Sec(NAME_LINUX, 184, 192, 576),
                        Sec(NAME_INITRD, 5, 8, 768) >>
                ELSE << Sec(NAME_LINUX, 184, 192, 576) >>
      img == PeImage([size |-> IF full THEN 784 ELSE 768, magic |-> 523,
                      numDirs |-> 6, sizeOfHeaders |-> 576, certSize |-> 0,
                      sections |-> secs])
      uki == WriteAt(img, 576, InnerKernel)
  IN  IF full THEN WriteAt(uki, 776, << 97, 61, 98 >>) ELSE uki

HdrNone ==
  [hdrs |-> FALSE, protocol |-> 0, loadflags |-> 0, xlf |-> 0,
   initrdAddrMax |-> << 0, 0, 0, 0 >>]

\* Protocol 2.15, loaded high, initrd allowed above 4G.
HdrNew ==
  [hdrs |-> TRUE, protocol |-> 527, loadflags |-> 1, xlf |-> 2,
   initrdAddrMax |-> << 255, 255, 255, 127 >>]

\* Protocol 2.04, loaded low, initrd_addr_max 0x7fffffff.
HdrMid ==
  [hdrs |-> TRUE, protocol |-> 516, loadflags |-> 0, xlf |-> 0,
   initrdAddrMax |-> << 255, 255, 255, 127 >>]

\* Protocol 2.03 with an initrd_addr_max of 4: every initrd is too large.
HdrTiny ==
  [hdrs |-> TRUE, protocol |-> 515, loadflags |-> 1, xlf |-> 0,
   initrdAddrMax |-> << 4, 0, 0, 0 >>]

\* A kernel whose PE signature is wrong.
BadKernel == WriteAt(PlainKernel(HdrNew), 64, << 80, 69, 0, 1 >>)

Kernels ==
  { PlainKernel(HdrNone), PlainKernel(HdrNew), PlainKernel(HdrMid),
    PlainKernel(HdrTiny), BadKernel, UkiKernel(TRUE), UkiKernel(FALSE) }

Initrds == { Absent, Present(<< 1, 2, 3, 4, 5, 6, 7, 8 >>) }

\* No cmdline, the empty cmdline, and "ab".
Cmdlines == { Absent, Present(<<>>), Present(<< 97, 98 >>) }

Software(kernel, initrd, cmdline) ==
  [kernel |-> kernel,
   hasInitrd |-> initrd.present,
   initrd |-> IF initrd.present THEN initrd.val ELSE <<>>,
   hasCmdline |-> cmdline.present,
   cmdline |-> IF cmdline.present THEN cmdline.val ELSE <<>>]

Section(type, rawOffset, rawSize, memBase, memSize, extendMr) ==
  [rawOffset |-> rawOffset, rawSize |-> rawSize, memBase |-> memBase,
   memSize |-> memSize, sectionType |-> type, extendMr |-> extendMr]

\* A firmware with k CFV sections (16 raw bytes each) among a BFV section, a
\* TD_HOB section and a TempMem section; hob says whether TD_HOB is there.
CfvSections(k) ==
  [c \in 1..k |-> Section("CFV", 16 * (c - 1), 16,
                          << 1047552 + 64 * c, 0 >>, << 64, 0 >>, FALSE)]

RtmrFirmware(k, hob) ==
  [bytes |-> FillBytes(4160),
   tdxMetadataSections |->
     << Section("BFV", 64, 4096, << 1047684, 0 >>, << 1, 0 >>, TRUE) >>
     \o SubSeq(CfvSections(k), 1, Min(1, k))
     \o << Section("TempMem", 0, 0, << 2064, 0 >>, << 16, 0 >>, FALSE) >>
     \o (IF hob THEN << Section("TD_HOB", 0, 0, << 2057, 0 >>, << 0, 512 >>,
                                FALSE) >>
                ELSE <<>>)
     \o SubSeq(CfvSections(k), 2, k)]

\* 1 GiB, 0xB0000000 and 8 GiB of RAM.
RamSizes == { << 262144, 0 >>, << 720896, 0 >>, << 2097152, 0 >> }

\* An ACPI table: signature, length, and filler up to the length.
AcpiTable(sig, length) ==
  sig \o U32LE(length) \o [i \in 1..(length - 8) |-> Fill(i)]

\* "APIC"
SIG_APIC == << 65, 80, 73, 67 >>

AcpiBlobs ==
  { AcpiTable(SIG_FACS, 16) \o AcpiTable(SIG_FACP, 24)
      \o AcpiTable(SIG_APIC, 12) \o AcpiTable(SIG_RSDT, 16) \o Zeros(8),
    AcpiTable(SIG_RSDT, 12) \o AcpiTable(SIG_FACP, 16) }

TrustDomain(firmware, ram, acpi, software) ==
  [hardware |-> [totalMemoryBytes |-> ram, acpiTables |-> acpi],
   firmware |-> firmware,
   software |-> software]

DefaultFirmware == RtmrFirmware(1, TRUE)

DefaultRam == << 262144, 0 >>

DefaultAcpi ==
  AcpiTable(SIG_FACS, 16) \o AcpiTable(SIG_FACP, 24)
    \o AcpiTable(SIG_APIC, 12) \o AcpiTable(SIG_RSDT, 16) \o Zeros(8)

\* The TrustDomains reproduceRtmr is run on: every software payload on the
\* default platform, and every platform under two payloads.
TrustDomains ==
  { TrustDomain(DefaultFirmware, DefaultRam, DefaultAcpi, Software(k, i, c)) :
      k \in Kernels, i \in Initrds, c \in Cmdlines }
  \cup
  { TrustDomain(f, r, a, sw) :
      f \in { RtmrFirmware(k, TRUE) : k \in 0..MaxCfv }
              \cup { RtmrFirmware(1, FALSE) },
      r \in RamSizes, a \in AcpiBlobs,
      sw \in { Software(PlainKernel(HdrNew),
                        Present(<< 1, 2, 3, 4, 5, 6, 7, 8 >>),
                        Present(<< 97, 98 >>)) } }

\* ------------------------------------------------------------------------
\* reproduceRtmr / reproduceEvents as a state machine: one step per await
\* ------------------------------------------------------------------------

VARIABLES
  td,          \* the TrustDomain the calls are made on (kernel patched in place)
  pc,          \* where the running call of reproduceRtmr stands
  events,      \* reproduceEvents: const events = []
  registers,   \* reproduceRtmr: const registers (register k is element k+1)
  foldIdx,     \* reproduceRtmr: 1-based index of the event the fold is at
  cfvIdx,      \* reproduceEvents: 1-based index the CFV loop is at
  acpiTables,  \* reproduceEvents: const acpiTables
  kernelPe,    \* reproduceEvents: const kernelPe, with linuxSection
  calls,       \* number of calls of reproduceRtmr made so far
  outcomes,    \* what each finished call of reproduceRtmr settled with
  mrtds,       \* what each call of reproduceMrtd(td.firmware) returned
  hobRun,      \* a call of getHobHashPreimage: its arguments and locals
  peRun,       \* a call of getPeHashPreimage: its argument and locals
  patchRun,    \* calls of qemuPatchKernel: their arguments and locals
  fwRun,       \* a call of parseFirmware: its argument and locals
  mrtdRun,     \* a call of reproduceMrtd: its argument and locals
  acpiRun,     \* the ACPI steps of reproduceEvents: their argument and locals
  uuidRun,     \* a round trip through uuidToBytes and bytesToUuid
  amlRun,      \* a call of encodePackageLength: its argument and locals
  ukiRun,      \* two runs of the kernel steps of reproduceEvents on one UKI
  uiRun        \* the page: its inputs, mrtdModel, rtmrModel and the updates in flight

rtmrVars ==
  << td, pc, events, registers, foldIdx, cfvIdx, acpiTables, kernelPe, calls,
     outcomes, mrtds >>

\* The variables each of the machines leaves alone.
notRtmr == << hobRun, peRun, patchRun, fwRun, mrtdRun, acpiRun,
     uuidRun,
     amlRun,
     ukiRun,
     uiRun >>

notHob == << rtmrVars, peRun, patchRun, fwRun, mrtdRun, acpiRun,
     uuidRun,
     amlRun,
     ukiRun,
     uiRun >>

notPe == << rtmrVars, hobRun, patchRun, fwRun, mrtdRun, acpiRun,
     uuidRun,
     amlRun,
     ukiRun,
     uiRun >>

notPatch == << rtmrVars, hobRun, peRun, fwRun, mrtdRun, acpiRun,
     uuidRun,
     amlRun,
     ukiRun,
     uiRun >>

notFw == << rtmrVars, hobRun, peRun, patchRun, mrtdRun, acpiRun,
     uuidRun,
     amlRun,
     ukiRun,
     uiRun >>

notMrtd == << rtmrVars, hobRun, peRun, patchRun, fwRun, acpiRun,
     uuidRun,
     amlRun,
     ukiRun,
     uiRun >>

notAcpi == << rtmrVars, hobRun, peRun, patchRun, fwRun, mrtdRun,
     uuidRun,
     amlRun,
     ukiRun,
     uiRun >>

notUuid == << rtmrVars, hobRun, peRun, patchRun, fwRun, mrtdRun, acpiRun,
     amlRun,
     ukiRun,
     uiRun >>

notAml == << rtmrVars, hobRun, peRun, patchRun, fwRun, mrtdRun, acpiRun,
     uuidRun,
     ukiRun,
     uiRun >>

notUki == << rtmrVars, hobRun, peRun, patchRun, fwRun, mrtdRun, acpiRun,
     uuidRun,
     amlRun,
     uiRun >>

notUi == << rtmrVars, hobRun, peRun, patchRun, fwRun, mrtdRun, acpiRun,
     uuidRun,
     amlRun,
     ukiRun >>

NoPe == [ok |-> FALSE, err |-> "none"]

InitRtmr ==
  /\ td \in TrustDomains
  /\ pc = "idle"
  /\ events = <<>>
  /\ registers = <<>>
  /\ foldIdx = 0
  /\ cfvIdx = 0
  /\ acpiTables = <<>>
  /\ kernelPe = NoPe
  /\ calls = 0
  /\ outcomes = <<>>
  /\ mrtds = <<>>

\* The promise settles with the error and the events produced so far.
RejectWithEvents(err) ==
  /\ pc' = "done"
  /\ outcomes' = Append(outcomes, [status |-> "error", err |-> err,
                                   events |-> events])

\* The promise of reproduceRtmr rejects with err.
Reject(err) ==
  /\ pc' = "done"
  /\ outcomes' = Append(outcomes, [status |-> "error", err |-> err])

\* await addEvent(...) on a preimage that cannot throw, then on to `to`.
AddEvent(from, to, name, type, register, metadata, preimage) ==
  /\ pc = from
  /\ events' = addEvent(events, name, type, register, metadata, preimage)
  /\ pc' = to
  /\ UNCHANGED << td, registers, foldIdx, cfvIdx, acpiTables, kernelPe,
                  calls, outcomes, mrtds >>
  /\ UNCHANGED notRtmr

\* reproduceRtmr(td) is called (again): fresh registers, fresh event list.
CallReproduceRtmr ==
  /\ pc \in { "idle", "done" }
  /\ calls < MaxCalls
  /\ calls' = calls + 1
  /\ registers' = << Zeros(48), Zeros(48), Zeros(48), Zeros(48) >>
  /\ events' = <<>>
  /\ foldIdx' = 0
  /\ cfvIdx' = 0
  /\ acpiTables' = <<>>
  /\ kernelPe' = NoPe
  /\ pc' = "hob"
  /\ UNCHANGED << td, outcomes, mrtds >>
  /\ UNCHANGED notRtmr

\* reproduceMrtd(td.firmware) is called between calls of reproduceRtmr.
CallReproduceMrtd ==
  /\ pc = "done"
  /\ Len(mrtds) < calls
  /\ mrtds' = Append(mrtds, reproduceMrtd(td.firmware))
  /\ UNCHANGED << td, pc, events, registers, foldIdx, cfvIdx, acpiTables,
                  kernelPe, calls, outcomes >>
  /\ UNCHANGED notRtmr

HobEvent(hob) ==
  IF hob.ok
    THEN /\ events' = addEvent(events, "TD Hand-Off Block (HOB)",
                               "EV_EFI_HANDOFF_TABLES2", 0, <<>>, hob.val)
         /\ pc' = "cfv"
         /\ cfvIdx' = 1
         /\ UNCHANGED outcomes
    ELSE Reject(hob.err) /\ UNCHANGED << events, cfvIdx >>

EvHob ==
  /\ pc = "hob"
  /\ HobEvent(getHobHashPreimage(td.firmware.tdxMetadataSections,
                                 td.hardware.totalMemoryBytes))
  /\ UNCHANGED << td, registers, foldIdx, acpiTables, kernelPe, calls, mrtds >>
  /\ UNCHANGED notRtmr

\* The index of the first CFV section at or after from, 0 when none is left.
RECURSIVE nextCfv(_, _)
nextCfv(sections, from) ==
  IF from > Len(sections) THEN 0
  ELSE IF isCfv(sections[from]) THEN from
  ELSE nextCfv(sections, from + 1)

\* One CFV section of the loop over tdxMetadataSections is measured.
EvCfv ==
  /\ pc = "cfv"
  /\ nextCfv(td.firmware.tdxMetadataSections, cfvIdx) # 0
  /\ LET k == nextCfv(td.firmware.tdxMetadataSections, cfvIdx)
     IN  /\ events' = addEvent(events, "Configuration Firmware Volume (CFV)",
                               "EV_EFI_PLATFORM_FIRMWARE_BLOB2", 0, <<>>,
                               cfvPreimage(td.firmware,
                                           td.firmware.tdxMetadataSections[k]))
         /\ cfvIdx' = k + 1
  /\ UNCHANGED << td, pc, registers, foldIdx, acpiTables, kernelPe, calls,
                  outcomes, mrtds >>
  /\ UNCHANGED notRtmr

DriverConfigMetadata(name, alias) ==
  << << "name", name >>, << "alias", alias >>, << "value", "0" >> >>

\* "SecureBoot", "PK", "KEK", "db", "dbx" as code units.
STR_SecureBoot == << 83, 101, 99, 117, 114, 101, 66, 111, 111, 116 >>

STR_PK == << 80, 75 >>

STR_KEK == << 75, 69, 75 >>

STR_db == << 100, 98 >>

STR_dbx == << 100, 98, 120 >>

\* The CFV loop is over: the Secure Boot variable is measured.
EvSecureBoot ==
  /\ pc = "cfv"
  /\ nextCfv(td.firmware.tdxMetadataSections, cfvIdx) = 0
  /\ events' = addEvent(events, "Secure boot mode",
                        "EV_EFI_VARIABLE_DRIVER_CONFIG", 0,
                        DriverConfigMetadata("SecureBoot",
                                             "EFI_SECURE_BOOT_MODE_NAME"),
                        getEmptyDriverConfigVariable(GLOBAL_VAR_GUID,
                                                     STR_SecureBoot))
  /\ pc' = "pk"
  /\ UNCHANGED << td, registers, foldIdx, cfvIdx, acpiTables, kernelPe,
                  calls, outcomes, mrtds >>
  /\ UNCHANGED notRtmr

EvPK ==
  AddEvent("pk", "kek", "Public platform key",
           "EV_EFI_VARIABLE_DRIVER_CONFIG", 0,
           DriverConfigMetadata("PK", "EFI_PLATFORM_KEY_NAME"),
           getEmptyDriverConfigVariable(GLOBAL_VAR_GUID, STR_PK))

EvKEK ==
  AddEvent("kek", "db", "Key exchange key signature database",
           "EV_EFI_VARIABLE_DRIVER_CONFIG", 0,
           DriverConfigMetadata("KEK", "EFI_KEY_EXCHANGE_KEY_NAME"),
           getEmptyDriverConfigVariable(GLOBAL_VAR_GUID, STR_KEK))

Evdb ==
  AddEvent("db", "dbx", "Authorized signature database",
           "EV_EFI_VARIABLE_DRIVER_CONFIG", 0,
           DriverConfigMetadata("db", "EFI_IMAGE_SECURITY_DATABASE"),
           getEmptyDriverConfigVariable(SECURITY_DB_GUID, STR_db))

Evdbx ==
  AddEvent("dbx", "sep1", "Forbidden signature database",
           "EV_EFI_VARIABLE_DRIVER_CONFIG", 0,
           DriverConfigMetadata("dbx", "EFI_IMAGE_SECURITY_DATABASE1"),
           getEmptyDriverConfigVariable(SECURITY_DB_GUID, STR_dbx))

EvSeparator1 ==
  AddEvent("sep1", "loader", "Separator", "EV_SEPARATOR", 0, <<>>, Zeros(4))

\* The table-loader event once parseAcpiTables has returned tables.
TableLoaderEvent(tables, loader) ==
  IF ~loader.ok
    THEN Reject(loader.err) /\ UNCHANGED << events, acpiTables >>
    ELSE /\ acpiTables' = tables
         /\ events' = addEvent(events, "QEMU ACPI table loader",
                               "EV_PLATFORM_CONFIG_FLAGS", 0,
                               << << "fileName", "etc/table-loader" >> >>,
                               loader.val)
         /\ pc' = "rsdp"
         /\ UNCHANGED outcomes

\* A table of length 0 keeps parseAcpiTables from returning: the call stays
\* pending for good.
TableLoaderStep(tables) ==
  IF ~tables.ok
    THEN /\ IF tables.err = "hang"
              THEN pc' = "hung" /\ UNCHANGED outcomes
              ELSE Reject(tables.err)
         /\ UNCHANGED << events, acpiTables >>
    ELSE TableLoaderEvent(tables.val, getTableLoader(tables.val))

\* parseAcpiTables, then the table-loader event.
EvTableLoader ==
  /\ pc = "loader"
  /\ TableLoaderStep(parseAcpiTables(td.hardware.acpiTables))
  /\ UNCHANGED << td, registers, foldIdx, cfvIdx, kernelPe, calls, mrtds >>
  /\ UNCHANGED notRtmr

EvRsdp ==
  AddEvent("rsdp", "acpi", "Root System Description Pointer (RSDP)",
           "EV_PLATFORM_CONFIG_FLAGS", 0,
           << << "fileName", "etc/acpi/rsdp" >> >>, getRsdp(acpiTables))

EvAcpiTables ==
  AddEvent("acpi", "kernel", "ACPI tables", "EV_PLATFORM_CONFIG_FLAGS", 0,
           << << "fileName", "etc/acpi/tables" >> >>, td.hardware.acpiTables)

\* The kernel is parsed and its preimage taken: the call waits for the
\* digest of the preimage, the event not yet pushed.
KernelEvent(pe, linuxSection, preimage) ==
  /\ kernelPe' = [ok |-> TRUE, sections |-> pe.sections,
                  linuxSection |-> linuxSection, preimage |-> preimage]
  /\ pc' = "kernelEvent"
  /\ UNCHANGED << events, outcomes >>

KernelParsed(pe, preimage) ==
  IF ~pe.ok
    THEN Reject(pe.err) /\ UNCHANGED << events, kernelPe >>
  ELSE IF ~preimage.ok
    THEN Reject(preimage.err) /\ UNCHANGED << events, kernelPe >>
  ELSE KernelEvent(pe, findLinuxSection(pe), preimage.val)

\* The kernel steps with parsePe and the hash taken from the kernel as it
\* was before the patch.
KernelHashedUnpatched(patch) ==
  /\ td' = [td EXCEPT !.software.kernel = patch.kernel]
  /\ IF ~patch.ok
       THEN Reject(patch.err) /\ UNCHANGED << events, kernelPe >>
       ELSE KernelParsed(parsePe(td.software.kernel),
                         getPeHashPreimage(td.software.kernel))

KernelPatched(patch) ==
  /\ td' = [td EXCEPT !.software.kernel = patch.kernel]
  /\ IF ~patch.ok
       THEN Reject(patch.err) /\ UNCHANGED << events, kernelPe >>
       ELSE KernelParsed(parsePe(patch.kernel),
                         getPeHashPreimage(patch.kernel))

\* qemuPatchKernel (in place, whatever it throws afterwards), parsePe, the
\* search for .linux and getPeHashPreimage, up to the await of the digest.
EvKernel ==
  /\ pc = "kernel"
  /\ KernelPatched(qemuPatchKernel(td.software, td.hardware.totalMemoryBytes))
  /\ UNCHANGED << registers, foldIdx, cfvIdx, acpiTables, calls, mrtds >>
  /\ UNCHANGED notRtmr

\* The digest has resolved: the event of the kernel image is pushed, named
\* after whether .linux was found.
EvKernelImage ==
  /\ pc = "kernelEvent"
  /\ events' = addEvent(events,
                        IF kernelPe.linuxSection.found
                          THEN "Linux unified kernel image"
                          ELSE "Linux kernel",
                        "EV_EFI_BOOT_SERVICES_APPLICATION", 1, <<>>,
                        kernelPe.preimage)
  /\ pc' = "bootorder"
  /\ UNCHANGED << td, registers, foldIdx, cfvIdx, acpiTables, kernelPe,
                  calls, outcomes, mrtds >>
  /\ UNCHANGED notRtmr

EvBootOrder ==
  AddEvent("bootorder", "boot0000", "BootOrder boot variable",
           "EV_EFI_VARIABLE_BOOT", 0, <<>>, Zeros(2))

EvBoot0000 ==
  AddEvent("boot0000", "action0", "Boot0000 boot variable",
           "EV_EFI_VARIABLE_BOOT", 0, <<>>, getUiAppBootOption)

EvAction0 ==
  AddEvent("action0", "sep2", EFI_ACTION_NAMES[1], "EV_EFI_ACTION", 1, <<>>,
           utf8encode(EFI_ACTIONS[1]))

EvSeparator2 ==
  AddEvent("sep2", "linux", "Separator", "EV_SEPARATOR", 0, <<>>, Zeros(4))

isUki == kernelPe.ok /\ kernelPe.linuxSection.found

LinuxKernelEvent(preimage) ==
  IF preimage.ok
    THEN /\ events' = addEvent(events, "Linux kernel",
                               "EV_EFI_BOOT_SERVICES_APPLICATION", 1, <<>>,
                               preimage.val)
         /\ pc' = "cmdline"
         /\ UNCHANGED outcomes
    ELSE Reject(preimage.err) /\ UNCHANGED events

\* if (linuxSection): the kernel inside the UKI is measured.
EvLinuxKernel ==
  /\ pc = "linux"
  /\ isUki
  /\ LinuxKernelEvent(
       getPeHashPreimage(viewBytes(td.software.kernel,
                                   kernelPe.linuxSection.section.body)))
  /\ UNCHANGED << td, registers, foldIdx, cfvIdx, acpiTables, kernelPe, calls,
                  mrtds >>
  /\ UNCHANGED notRtmr

\* let initrd, let cmdline after the if / else on isUki.
initrd == eventInitrd(td.software, kernelPe, isUki)

cmdline == eventCmdline(td.software, kernelPe, isUki)

\* Control stands before if (cmdline !== null), if (initrd), the last events.
AtCmdline == pc = "cmdline" \/ (pc = "linux" /\ ~isUki)

AtInitrd == pc = "initrd" \/ (AtCmdline /\ ~cmdline.present)

AtAction1 == pc = "action1" \/ (AtInitrd /\ ~initrd.present)

EvCmdline ==
  /\ AtCmdline
  /\ cmdline.present
  /\ events' = addEvent(events, "Linux kernel command-line parameters",
                        "EV_EVENT_TAG", 2,
                        << << "cmdline", cmdline.val >>,
                           << "tagName", "LOADED_IMAGE::LoadOptions" >> >>,
                        utf16LeEncode(cmdline.val \o << 0 >>))
  /\ pc' = "initrd"
  /\ UNCHANGED << td, registers, foldIdx, cfvIdx, acpiTables, kernelPe,
                  calls, outcomes, mrtds >>
  /\ UNCHANGED notRtmr

EvInitrd ==
  /\ AtInitrd
  /\ initrd.present
  /\ events' = addEvent(events, "Linux initial ramdisk", "EV_EVENT_TAG", 2,
                        <<>>, initrd.val)
  /\ pc' = "action1"
  /\ UNCHANGED << td, registers, foldIdx, cfvIdx, acpiTables, kernelPe,
                  calls, outcomes, mrtds >>
  /\ UNCHANGED notRtmr

EvAction1 ==
  /\ AtAction1
  /\ events' = addEvent(events, EFI_ACTION_NAMES[2], "EV_EFI_ACTION", 1, <<>>,
                        utf8encode(EFI_ACTIONS[2]))
  /\ pc' = "action2"
  /\ UNCHANGED << td, registers, foldIdx, cfvIdx, acpiTables, kernelPe,
                  calls, outcomes, mrtds >>
  /\ UNCHANGED notRtmr

\* The last event; reproduceEvents returns and the fold starts.
EvAction2 ==
  /\ pc = "action2"
  /\ events' = addEvent(events, EFI_ACTION_NAMES[3], "EV_EFI_ACTION", 1, <<>>,
                        utf8encode(EFI_ACTIONS[3]))
  /\ pc' = "fold"
  /\ foldIdx' = 1
  /\ UNCHANGED << td, registers, cfvIdx, acpiTables, kernelPe, calls,
                  outcomes, mrtds >>
  /\ UNCHANGED notRtmr

\* One pass of for (const ev of events); after the last one reproduceRtmr
\* returns { registers, events }.
Fold ==
  /\ pc = "fold"
  /\ foldIdx <= Len(events)
  /\ registers' = extendRegister(registers, events[foldIdx])
  /\ foldIdx' = foldIdx + 1
  /\ IF foldIdx = Len(events)
       THEN /\ pc' = "done"
            /\ outcomes' = Append(outcomes,
                                  [status |-> "ok", registers |-> registers',
                                   events |-> events])
       ELSE UNCHANGED << pc, outcomes >>
  /\ UNCHANGED << td, events, cfvIdx, acpiTables, kernelPe, calls, mrtds >>
  /\ UNCHANGED notRtmr

NextRtmr ==
  \/ CallReproduceRtmr
  \/ CallReproduceMrtd
  \/ EvHob
  \/ EvCfv
  \/ EvSecureBoot
  \/ EvPK
  \/ EvKEK
  \/ Evdb
  \/ Evdbx
  \/ EvSeparator1
  \/ EvTableLoader
  \/ EvRsdp
  \/ EvAcpiTables
  \/ EvKernel
  \/ EvKernelImage
  \/ EvBootOrder
  \/ EvBoot0000
  \/ EvAction0
  \/ EvSeparator2
  \/ EvLinuxKernel
  \/ EvCmdline
  \/ EvInitrd
  \/ EvAction1
  \/ EvAction2
  \/ Fold

\* ------------------------------------------------------------------------
\* getHobHashPreimage as a state machine: one step per loop iteration
\* ------------------------------------------------------------------------

\* Page numbers the reserved sections of the inputs start at, and the sizes
\* of RAM, in pages.
HobBases == { 0, 1, 4 }

TempRanges == { << 2, 1 >>, << 1, 2 >>, << 5, 2 >> }

HobTotals == { << 1, 0 >>, << 4, 0 >>, << 8, 0 >>, << 262144, 0 >> }

HobSectionLists ==
  { << Section("TD_HOB", 0, 0, << b, 0 >>, << 1, 0 >>, FALSE) >> :
      b \in HobBases }
  \cup
  { << Section("BFV", 0, 16, << 1047684, 0 >>, << 1, 0 >>, TRUE),
       Section("TD_HOB", 0, 0, << b, 0 >>, << 1, 0 >>, FALSE),
       Section("TempMem", 0, 0, << t[1], 0 >>, << t[2], 0 >>, FALSE) >> :
      b \in HobBases, t \in TempRanges }
  \cup
  { << Section("TempMem", 0, 0, << t[1], 0 >>, << t[2], 0 >>, FALSE),
       Section("CFV", 0, 16, << 1047552, 0 >>, << 1, 0 >>, FALSE),
       Section("TD_HOB", 0, 0, << b, 0 >>, << 1, 0 >>, FALSE) >> :
      b \in HobBases, t \in TempRanges }
  \cup
  { << Section("TempMem", 0, 0, << 2, 0 >>, << 1, 0 >>, FALSE) >>,
       << Section("TD_HOB", 0, 0, << 1, 0 >>, << 0, 64 >>, FALSE) >>,
       << Section("TD_HOB", 0, 0, << 0, 0 >>, << 0, 156 >>, FALSE) >> }

hobOff == [pc |-> "off"]

InitHob ==
  \E sections \in HobSectionLists, total \in HobTotals :
    hobRun = [pc |-> "find", tdxMetadataSections |-> sections,
              totalMemoryBytes |-> total]

\* find(TD_HOB), the throw when there is none, filter and sort.
HobFind ==
  /\ hobRun.pc = "find"
  /\ hobRun' =
       IF ~findHobSection(hobRun.tdxMetadataSections).found
         THEN [hobRun EXCEPT !.pc = "done"]
                @@ [ok |-> FALSE, err |-> "TD_HOB section not found"]
         ELSE [hobRun EXCEPT !.pc = "loop"]
                @@ [hobSection |->
                      findHobSection(hobRun.tdxMetadataSections).section,
                    sortedSections |->
                      sortedSections(hobRun.tdxMetadataSections),
                    idx |-> 1, memOffset |-> Num(0), entries |-> <<>>]
  /\ UNCHANGED notHob

\* One iteration of for (const section of sortedSections).
HobLoop ==
  /\ hobRun.pc = "loop"
  /\ hobRun.idx <= Len(hobRun.sortedSections)
  /\ LET st == hobLoopBody([memOffset |-> hobRun.memOffset,
                            entries |-> hobRun.entries],
                           hobRun.sortedSections[hobRun.idx])
     IN  hobRun' = [hobRun EXCEPT !.idx = @ + 1,
                                  !.memOffset = st.memOffset,
                                  !.entries = st.entries]
  /\ UNCHANGED notHob

\* The loop is over: the last entry, the buffer, and the returned subarray.
HobReturn ==
  /\ hobRun.pc = "loop"
  /\ hobRun.idx > Len(hobRun.sortedSections)
  /\ LET entries == hobTail([memOffset |-> hobRun.memOffset,
                             entries |-> hobRun.entries],
                            hobRun.totalMemoryBytes)
         result == hobBuffer(hobRun.hobSection, entries)
     IN  hobRun' = [hobRun EXCEPT !.pc = "done", !.entries = entries]
                     @@ result
  /\ UNCHANGED notHob

NextHob == HobFind \/ HobLoop \/ HobReturn

\* ------------------------------------------------------------------------
\* getPeHashPreimage as a state machine: one step per group of pushes
\* ------------------------------------------------------------------------

\* Section tables of the input images (size 448): none, one, two out of
\* file order, raw data lying over the checksum field, raw data lying over
\* the data directories, an empty section, raw data clamped at the end of
\* the file, and a section that exceeds the file.
PeLayouts ==
  { <<>>,
    << Sec(NAME_TEXT, 32, 32, 384) >>,
    << Sec(NAME_TEXT, 16, 16, 416), Sec(NAME_LINUX, 32, 32, 384) >>,
    << Sec(NAME_TEXT, 64, 64, 128) >>,
    << Sec(NAME_TEXT, 32, 32, 208) >>,
    << Sec(NAME_TEXT, 0, 0, 384), Sec(NAME_LINUX, 64, 64, 384) >>,
    << Sec(NAME_TEXT, 16, 64, 400) >>,
    << Sec(NAME_TEXT, 64, 64, 400) >> }

PeMagics == { 267, 523 }

PeNumDirs == { 4, 6 }

PeHeaderSizes == { 150, 220, 384 }

PeCertSizes == { 0, 16, 64 }

PeImages ==
  { PeImage([size |-> 448, magic |-> m, numDirs |-> d, sizeOfHeaders |-> h,
             certSize |-> c, sections |-> s]) :
      m \in PeMagics, d \in PeNumDirs, h \in PeHeaderSizes,
      c \in PeCertSizes, s \in PeLayouts }
  \cup { BadKernel }

InitPe ==
  \E bytes \in PeImages : peRun = [pc |-> "parse", bytes |-> bytes]

PeThrow(run, err) ==
  [pc |-> "done", bytes |-> run.bytes, ok |-> FALSE, err |-> err]

PeParsed(run, pe) ==
  IF ~pe.ok THEN PeThrow(run, pe.err)
  ELSE [pc |-> "header", bytes |-> run.bytes,
        optionalHeader |-> pe.optionalHeader, sections |-> pe.sections]

\* const { optionalHeader, sections } = parsePe(bytes)
PeParse ==
  /\ peRun.pc = "parse"
  /\ peRun' = PeParsed(peRun, parsePe(peRun.bytes))
  /\ UNCHANGED notPe

PeHeaderPushed(run, header) ==
  IF ~header.ok THEN PeThrow(run, header.err)
  ELSE [pc |-> "sections", bytes |-> run.bytes,
        optionalHeader |-> run.optionalHeader,
        hashParts |-> header.val, nHeader |-> Len(header.val),
        sumOfBytesHashed |-> run.optionalHeader.sizeOfHeaders,
        validSections |-> validSections(run.sections), idx |-> 1]

\* The pushes of the header views, then filter and sort of the sections.
PeHeader ==
  /\ peRun.pc = "header"
  /\ peRun' = PeHeaderPushed(peRun,
                             peHeaderParts(peRun.bytes, peRun.optionalHeader))
  /\ UNCHANGED notPe

PeSectionPushed(run, rawBody) ==
  [run EXCEPT !.hashParts = Append(@, rawBody),
              !.sumOfBytesHashed = @ + (rawBody[2] - rawBody[1]),
              !.idx = @ + 1]

\* One iteration of for (const section of validSections).
PeSection ==
  /\ peRun.pc = "sections"
  /\ peRun.idx <= Len(peRun.validSections)
  /\ peRun' = PeSectionPushed(peRun, peRun.validSections[peRun.idx])
  /\ UNCHANGED notPe

PeReturned(run, parts) ==
  IF ~parts.ok THEN PeThrow(run, parts.err)
  ELSE [pc |-> "done", bytes |-> run.bytes, ok |-> TRUE,
        optionalHeader |-> run.optionalHeader,
        hashParts |-> parts.val, nHeader |-> run.nHeader,
        validSections |-> run.validSections,
        val |-> peConcatParts(run.bytes, parts).val]

PeTrailingPushed(run, trailing) ==
  IF ~trailing.ok THEN PeThrow(run, trailing.err)
  ELSE PeReturned(run, [ok |-> TRUE, val |-> run.hashParts \o trailing.val])

\* The trailing data after the loop, and return concatBytes(hashParts).
PeTrailing ==
  /\ peRun.pc = "sections"
  /\ peRun.idx > Len(peRun.validSections)
  /\ peRun' = PeTrailingPushed(peRun,
                 peTrailingParts(peRun.bytes, peRun.optionalHeader,
                                 peRun.sumOfBytesHashed))
  /\ UNCHANGED notPe

NextPe == PeParse \/ PeHeader \/ PeSection \/ PeTrailing

\* ------------------------------------------------------------------------
\* qemuPatchKernel as a state machine: two calls on copies of one kernel
\* ------------------------------------------------------------------------

\* Protocol 2.01: the oldest header that gets the heap end pointer.
HdrOld ==
  [hdrs |-> TRUE, protocol |-> 513, loadflags |-> 0, xlf |-> 0,
   initrdAddrMax |-> << 0, 0, 0, 0 >>]

\* Protocol 2.03, loaded high, initrd_addr_max 0xffffffff.
HdrMax ==
  [hdrs |-> TRUE, protocol |-> 515, loadflags |-> 1, xlf |-> 0,
   initrdAddrMax |-> << 255, 255, 255, 255 >>]

\* Protocol 2.03 with an initrd_addr_max of 8, the length of the initrd.
HdrEight ==
  [hdrs |-> TRUE, protocol |-> 515, loadflags |-> 1, xlf |-> 0,
   initrdAddrMax |-> << 8, 0, 0, 0 >>]

\* Protocol 2.03 with an initrd_addr_max of 9.
HdrNine ==
  [hdrs |-> TRUE, protocol |-> 515, loadflags |-> 1, xlf |-> 0,
   initrdAddrMax |-> << 9, 0, 0, 0 >>]

\* Kernels with each kind of header, and kernels that end inside the
\* fields the patcher reads or writes.
PatchKernels ==
  { PlainKernel(h) : h \in { HdrNone, HdrNew, HdrMid, HdrTiny, HdrOld,
                             HdrMax, HdrEight, HdrNine } }
  \cup { SubSeq(PlainKernel(HdrNew), 1, 518),
         SubSeq(PlainKernel(HdrMid), 1, 550),
         SubSeq(PlainKernel(HdrOld), 1, 549),
         FillBytes(33) }

\* No cmdline, and one of 16 characters.
PatchCmdlines == { Absent, Present([i \in 1..16 |-> 97]) }

PatchSoftware ==
  { Software(k, i, c) : k \in PatchKernels, i \in Initrds,
                        c \in PatchCmdlines }

\* 0x20000 bytes (less than ACPI_DATA_SIZE), 1 GiB, 0xAFFFF000, 0xB0000000,
\* 0xC0000000 and 8 GiB of RAM.
PatchRams ==
  { << 32, 0 >>, << 262144, 0 >>, << 720895, 0 >>, << 720896, 0 >>,
    << 786432, 0 >>, << 2097152, 0 >> }

\* The call on rams[n] starts on a fresh copy of the kernel.
PatchCall(software, rams, n, results) ==
  [pc |-> "read", software |-> software, rams |-> rams, run |-> n,
   kernel |-> software.kernel, results |-> results,
   protocol |-> 0, low |-> FALSE, initrdMax |-> Num(0)]

InitPatch ==
  \E software \in PatchSoftware, r1 \in PatchRams, r2 \in PatchRams :
    patchRun = PatchCall(software, << r1, r2 >>, 1, <<>>)

\* The call returned or threw: the second call follows the first.
PatchSettled(run, st) ==
  LET results == Append(run.results,
                        [ok |-> st.ok, kernel |-> st.kernel,
                         err |-> IF st.ok THEN "" ELSE st.err])
  IN  IF run.run = 1
        THEN PatchCall(run.software, run.rams, 2, results)
        ELSE [run EXCEPT !.pc = "done", !.results = results]

PatchReadLimit(run, protocol, raw) ==
  IF ~raw.ok THEN PatchSettled(run, patchThrow(run, raw.err))
  ELSE [run EXCEPT !.pc = "header", !.protocol = protocol,
                   !.low = isLow(run.kernel, protocol),
                   !.initrdMax =
                     initrdMaxOf(raw.val,
                                 below4gMemSizeOf(run.rams[run.run]))]

PatchReadProtocol(run, protocol) ==
  IF ~protocol.ok THEN PatchSettled(run, patchThrow(run, protocol.err))
  ELSE PatchReadLimit(run, protocol.val,
                      initrdMaxRaw(run.kernel, protocol.val))

\* Everything up to the first write: the sizes, the protocol, the
\* addresses and initrdMax.
PatchRead ==
  /\ patchRun.pc = "read"
  /\ patchRun' = PatchReadProtocol(patchRun, kernelProtocol(patchRun.kernel))
  /\ UNCHANGED notPatch

PatchHeaderWritten(run, st) ==
  IF ~st.ok THEN PatchSettled(run, st)
  ELSE [run EXCEPT !.pc = "initrd", !.kernel = st.kernel]

\* The header writes.
PatchHeader ==
  /\ patchRun.pc = "header"
  /\ patchRun' =
       PatchHeaderWritten(patchRun,
         patchHeader(patchRun.kernel, patchRun.protocol,
                     cmdlineAddrOf(patchRun.low,
                                   cmdlineSizeOf(patchRun.software)),
                     realAddrOf(patchRun.low)))
  /\ UNCHANGED notPatch

\* if (software.initrd) { ... } and the return.
PatchInitrd ==
  /\ patchRun.pc = "initrd"
  /\ patchRun' =
       PatchSettled(patchRun,
         patchInitrd([kernel |-> patchRun.kernel, ok |-> TRUE],
                     patchRun.software, patchRun.protocol,
                     patchRun.initrdMax))
  /\ UNCHANGED notPatch

NextPatch == PatchRead \/ PatchHeader \/ PatchInitrd

\* ------------------------------------------------------------------------
\* reproduceMrtd as a state machine: one step per loop iteration
\* ------------------------------------------------------------------------

\* Parsed firmwares: the one-page section without MR.EXTEND, measured and
\* unmeasured sections in both orders, a measured section that starts in
\* the file and runs past its end, one whose last chunk straddles the end,
\* sizes that are not whole pages, no section, an empty section, two
\* measured sections, and a measured section of two pages.
MrtdFirmwares ==
  { [bytes |-> FillBytes(16),
     tdxMetadataSections |->
       << Section("TD_HOB", 0, 0, << 1, 0 >>, << 1, 0 >>, FALSE) >>],
    [bytes |-> FillBytes(4160),
     tdxMetadataSections |->
       << Section("BFV", 64, 4096, << 1047684, 0 >>, << 1, 0 >>, TRUE),
          Section("TempMem", 0, 0, << 2064, 0 >>, << 2, 0 >>, FALSE) >>],
    [bytes |-> FillBytes(4160),
     tdxMetadataSections |->
       << Section("TempMem", 0, 0, << 2064, 0 >>, << 2, 0 >>, FALSE),
          Section("BFV", 64, 4096, << 1047684, 0 >>, << 1, 0 >>, TRUE) >>],
    [bytes |-> FillBytes(4096),
     tdxMetadataSections |->
       << Section("BFV", 2048, 4096, << 1047684, 0 >>, << 1, 0 >>, TRUE) >>],
    [bytes |-> FillBytes(4160),
     tdxMetadataSections |->
       << Section("BFV", 200, 4096, << 1047684, 0 >>, << 1, 0 >>, TRUE) >>],
    [bytes |-> FillBytes(16),
     tdxMetadataSections |->
       << Section("TempMem", 0, 0, << 2064, 0 >>, << 0, 2048 >>, FALSE) >>],
    [bytes |-> FillBytes(4096),
     tdxMetadataSections |->
       << Section("BFV", 0, 2048, << 1047684, 0 >>, << 0, 2048 >>, TRUE) >>],
    [bytes |-> FillBytes(16), tdxMetadataSections |-> <<>>],
    [bytes |-> FillBytes(16),
     tdxMetadataSections |->
       << Section("TempMem", 0, 0, << 2064, 0 >>, << 0, 0 >>, TRUE) >>],
    [bytes |-> FillBytes(8192),
     tdxMetadataSections |->
       << Section("CFV", 0, 4096, << 1047552, 0 >>, << 1, 0 >>, TRUE),
          Section("BFV", 4096, 4096, << 1047684, 0 >>, << 1, 0 >>, TRUE) >>],
    [bytes |-> FillBytes(8192),
     tdxMetadataSections |->
       << Section("BFV", 0, 8192, << 1047684, 0 >>, << 2, 0 >>, TRUE) >>] }

\* The loops of section k start: the MEM.PAGE.ADD loop at page 0.
MrtdAtSection(run, k) == [run EXCEPT !.pc = "add", !.section = k, !.i = 0]

InitMrtd ==
  \E firmware \in MrtdFirmwares :
    mrtdRun = [pc |-> "add", firmware |-> firmware, section |-> 1, i |-> 0,
               j |-> 0, parts |-> <<>>]

MrtdSection == mrtdRun.firmware.tdxMetadataSections[mrtdRun.section]

MrtdInSection ==
  mrtdRun.section <= Len(mrtdRun.firmware.tdxMetadataSections)

\* i < numPages, for numPages = section.memSize / PAGE_SIZE
MrtdInPages(section, i) == NumLt(<< i, 0 >>, section.memSize)

\* One iteration of the first loop over the pages.
MrtdPageAdd ==
  /\ mrtdRun.pc = "add"
  /\ MrtdInSection
  /\ MrtdInPages(MrtdSection, mrtdRun.i)
  /\ mrtdRun' = [mrtdRun EXCEPT
                   !.parts = Append(@, memPageAddRecord(MrtdSection,
                                                        mrtdRun.i)),
                   !.i = @ + 1]
  /\ UNCHANGED notMrtd

\* The first loop is over: if (section.extendMr), or the next section.
MrtdAddsDone ==
  /\ mrtdRun.pc = "add"
  /\ MrtdInSection
  /\ ~MrtdInPages(MrtdSection, mrtdRun.i)
  /\ mrtdRun' = IF MrtdSection.extendMr
                  THEN [mrtdRun EXCEPT !.pc = "extend", !.i = 0, !.j = 0]
                  ELSE MrtdAtSection(mrtdRun, mrtdRun.section + 1)
  /\ UNCHANGED notMrtd

\* One iteration of the loop over the chunks of the pages.
MrtdExtend ==
  /\ mrtdRun.pc = "extend"
  /\ MrtdInPages(MrtdSection, mrtdRun.i)
  /\ mrtdRun' = [mrtdRun EXCEPT
                   !.parts = @ \o mrExtendParts(mrtdRun.firmware, MrtdSection,
                                                mrtdRun.i, mrtdRun.j),
                   !.i = IF mrtdRun.j = 15 THEN @ + 1 ELSE @,
                   !.j = IF mrtdRun.j = 15 THEN 0 ELSE @ + 1]
  /\ UNCHANGED notMrtd

\* The second loop is over: the next section.
MrtdExtendsDone ==
  /\ mrtdRun.pc = "extend"
  /\ ~MrtdInPages(MrtdSection, mrtdRun.i)
  /\ mrtdRun' = MrtdAtSection(mrtdRun, mrtdRun.section + 1)
  /\ UNCHANGED notMrtd

MrtdHashed(run, preimage) ==
  [run EXCEPT !.pc = "done"]
    @@ [preimage |-> preimage, digest |-> sha384(preimage)]

\* return await sha384(concatBytes(parts))
MrtdHash ==
  /\ mrtdRun.pc = "add"
  /\ ~MrtdInSection
  /\ mrtdRun' = MrtdHashed(mrtdRun, concatBytes(mrtdRun.parts))
  /\ UNCHANGED notMrtd

NextMrtd ==
  MrtdPageAdd \/ MrtdAddsDone \/ MrtdExtend \/ MrtdExtendsDone \/ MrtdHash

\* ------------------------------------------------------------------------
\* parseFirmware as a state machine: one step per check or loop iteration
\* ------------------------------------------------------------------------

\* de 82 b5 96 b2 1f f7 45 ba ea a3 66 c5 5a 08 2d
FOOTER_GUID_BYTES ==
  << 222, 130, 181, 150, 178, 31, 247, 69, 186, 234, 163, 102, 197, 90, 8,
     45 >>

\* The footer GUID with its last byte changed.
WRONG_GUID_BYTES ==
  << 222, 130, 181, 150, 178, 31, 247, 69, 186, 234, 163, 102, 197, 90, 8,
     46 >>

\* A 32-byte section record of the metadata table.
SectionRecord(rawOffset, rawSize, memBase, memSize, typeIndex, attributes) ==
  U32LE(rawOffset) \o U32LE(rawSize) \o U64LEOfNum(memBase)
    \o U64LEOfNum(memSize) \o U32LE(typeIndex) \o U32LE(attributes)

RECORD_BFV == SectionRecord(64, 4096, << 1047684, 0 >>, << 1, 0 >>, 0, 1)

RECORD_HOB == SectionRecord(0, 0, << 2057, 0 >>, << 2, 0 >>, 2, 0)

RECORD_BAD == SectionRecord(0, 0, << 2064, 0 >>, << 1, 0 >>, 9, 0)

\* A TempMem record whose memSize, 0x1200, is not a multiple of the page size.
RECORD_ODD == SectionRecord(0, 0, << 2066, 0 >>, << 1, 512 >>, 3, 0)

\* A GUID-table entry that points at the metadata table: the distance of
\* the table from the end of the file, the entry length and the GUID.
OffsetEntry(value) ==
  U32LE(value) \o U16LE(22) \o uuidToBytes(METADATA_OFFSET_GUID)

\* Any other GUID-table entry: two bytes of data, its length and its GUID.
OtherEntry(length) ==
  << 1, 2 >> \o U16LE(length) \o uuidToBytes(GLOBAL_VAR_GUID)

\* GUID tables as [bytes, tableLength]: the metadata entry alone, behind
\* another entry, absent, absent with a length that walks on, an entry of
\* length zero, and an empty table.
FwTables(value) ==
  { [bytes |-> OffsetEntry(value), tableLength |-> 40],
    [bytes |-> OffsetEntry(value) \o OtherEntry(20), tableLength |-> 60],
    [bytes |-> OtherEntry(20), tableLength |-> 20],
    [bytes |-> OtherEntry(20), tableLength |-> 38],
    [bytes |-> OtherEntry(0), tableLength |-> 38],
    [bytes |-> <<>>, tableLength |-> 0] }

\* Metadata tables as [header, records, value]: none to two sections, a
\* wrong GUID, signature or version, an unknown section type, a pointer
\* that leaves fewer than 32 bytes, an unaligned memSize and two TD_HOBs.
FwMetadata ==
  LET header(guid, signature, version, count) ==
        guid \o signature \o U32LE(0) \o U32LE(version) \o U32LE(count)
      good(count) == header(uuidToBytes(METADATA_GUID), TDVF_SIGNATURE, 1,
                            count)
  IN  { [header |-> good(0), records |-> <<>>, value |-> 192],
        [header |-> good(1), records |-> RECORD_BFV, value |-> 192],
        [header |-> good(2), records |-> RECORD_BFV \o RECORD_HOB,
         value |-> 192],
        [header |-> header(WRONG_GUID_BYTES, TDVF_SIGNATURE, 1, 1),
         records |-> RECORD_BFV, value |-> 192],
        [header |-> header(uuidToBytes(METADATA_GUID), << 84, 68, 86, 88 >>,
                           1, 1),
         records |-> RECORD_BFV, value |-> 192],
        [header |-> good(1) , records |-> RECORD_BAD, value |-> 192],
        [header |-> header(uuidToBytes(METADATA_GUID), TDVF_SIGNATURE, 2, 1),
         records |-> RECORD_BFV, value |-> 192],
        [header |-> good(2), records |-> RECORD_BFV \o RECORD_BAD,
         value |-> 192],
        [header |-> good(1), records |-> RECORD_BFV, value |-> 8],
        [header |-> good(2), records |-> RECORD_HOB \o RECORD_ODD,
         value |-> 192],
        [header |-> good(2), records |-> RECORD_HOB \o RECORD_HOB,
         value |-> 192] }

\* The 16 bytes at length - 0x30 and the last 16 bytes of the images.
FwFooterSlots == { FOOTER_GUID_BYTES, WRONG_GUID_BYTES, Zeros(16) }

FwLastSixteen == { FOOTER_GUID_BYTES, Zeros(16) }

\* An image of 256 bytes: the metadata table at 48, the GUID table ending
\* at 206, its length at 206, the footer GUID slot at 208 and 32 more bytes.
FwImage(metadata, table, slot, last) ==
  SubSeq(FillBytes(256), 1, 48)
    \o metadata.header \o metadata.records
    \o SubSeq(FillBytes(256),
              49 + Len(metadata.header) + Len(metadata.records),
              206 - Len(table.bytes))
    \o table.bytes \o U16LE(table.tableLength) \o slot
    \o SubSeq(FillBytes(256), 225, 240) \o last

\* Images of 10, 20, 30, 40 and 48 bytes; in those of 20, 30 and 48 the
\* GUID lies where subarray(length - 0x30) starts.
FwShortImages ==
  { FillBytes(10),
    FOOTER_GUID_BYTES \o << 1, 2, 3, 4 >>,
    FillBytes(12) \o FOOTER_GUID_BYTES \o << 1, 2 >>,
    FillBytes(40),
    FOOTER_GUID_BYTES \o FillBytes(32) }

\* Images whose metadata table is the last 32 bytes of the file: a header
\* that announces count records and no room for any of them.
FwTailImages ==
  { SubSeq(FillBytes(256), 1, 184) \o OffsetEntry(16) \o U16LE(40)
      \o FOOTER_GUID_BYTES \o uuidToBytes(METADATA_GUID) \o TDVF_SIGNATURE
      \o U32LE(0) \o U32LE(1) \o U32LE(count) : count \in { 0, 1, 2 } }

FwImages ==
  { FwImage(m, t, s, l) : m \in FwMetadata, t \in FwTables(192),
                          s \in FwFooterSlots, l \in FwLastSixteen }
  \cup { FwImage(m, t, FOOTER_GUID_BYTES, Zeros(16)) :
           m \in { x \in FwMetadata : x.value = 8 }, t \in FwTables(8) }
  \cup FwShortImages
  \cup FwTailImages

InitFw ==
  \E bytes \in FwImages :
    fwRun = [pc |-> "footer", bytes |-> bytes, offset |-> 0,
             tableStart |-> 0, metadataTable |-> <<>>,
             sectionCount |-> Num(0), i |-> 0, sections |-> <<>>]

FwThrow(run, err) ==
  [pc |-> "done", bytes |-> run.bytes, ok |-> FALSE, err |-> err]

FwFooterChecked(run, footer) ==
  IF ~footer.ok THEN FwThrow(run, footer.err)
  ELSE [run EXCEPT !.pc = "start"]

\* The footer GUID check of getTdxMetadataSections.
FwFooter ==
  /\ fwRun.pc = "footer"
  /\ fwRun' = FwFooterChecked(fwRun, checkFooterGuid(fwRun.bytes))
  /\ UNCHANGED notFw

FwWalkStarted(run, start) ==
  IF ~start.ok THEN FwThrow(run, start.err)
  ELSE [run EXCEPT !.pc = "walk", !.offset = start.offset,
                   !.tableStart = start.tableStart]

\* getTdxMetadataOffset up to its loop.
FwWalkStart ==
  /\ fwRun.pc = "start"
  /\ fwRun' = FwWalkStarted(fwRun, walkStart(fwRun.bytes))
  /\ UNCHANGED notFw

FwWalked(run, step) ==
  IF step.kind = "next" THEN [run EXCEPT !.offset = step.offset]
  ELSE IF step.kind = "found"
    THEN [run EXCEPT !.pc = "header",
                     !.metadataTable = metadataTableOf(run.bytes, step.val)]
  ELSE FwThrow(run, step.err)

\* One test of the loop condition of getTdxMetadataOffset and, when it
\* holds, one iteration.
FwWalk ==
  /\ fwRun.pc = "walk"
  /\ fwRun' = FwWalked(fwRun, walkStep(fwRun.bytes, fwRun.offset,
                                       fwRun.tableStart))
  /\ UNCHANGED notFw

FwHeaderChecked(run, header) ==
  IF ~header.ok THEN FwThrow(run, header.err)
  ELSE [run EXCEPT !.pc = "records", !.sectionCount = header.sectionCount]

\* parseTdxMetadataSections up to its loop.
FwHeader ==
  /\ fwRun.pc = "header"
  /\ fwRun' = FwHeaderChecked(fwRun, metadataHeader(fwRun.metadataTable))
  /\ UNCHANGED notFw

FwRecordParsed(run, record) ==
  IF ~record.ok THEN FwThrow(run, record.err)
  ELSE [run EXCEPT !.i = @ + 1, !.sections = Append(@, record.val)]

\* One iteration of the loop over the section records.
FwRecord ==
  /\ fwRun.pc = "records"
  /\ NumLt(Num(fwRun.i), fwRun.sectionCount)
  /\ fwRun' = FwRecordParsed(fwRun,
                             sectionRecord(fwRun.metadataTable, fwRun.i))
  /\ UNCHANGED notFw

\* return { bytes, tdxMetadataSections }
FwReturn ==
  /\ fwRun.pc = "records"
  /\ ~NumLt(Num(fwRun.i), fwRun.sectionCount)
  /\ fwRun' = [pc |-> "done", bytes |-> fwRun.bytes, ok |-> TRUE,
               tdxMetadataSections |-> fwRun.sections]
  /\ UNCHANGED notFw

NextFw ==
  FwFooter \/ FwWalkStart \/ FwWalk \/ FwHeader \/ FwRecord \/ FwReturn

\* ------------------------------------------------------------------------
\* The ACPI steps of reproduceEvents as a state machine: parseAcpiTables,
\* getTableLoader and getRsdp, one step per loop iteration
\* ------------------------------------------------------------------------

\* The tables a blob is made of, by signature.
AcpiKinds ==
  { AcpiTable(SIG_FACP, 16), AcpiTable(SIG_RSDT, 12), AcpiTable(SIG_FACS, 16),
    AcpiTable(SIG_APIC, 12) }

\* What follows the last table: nothing, eight NUL bytes, or five bytes.
AcpiEndings == { <<>>, Zeros(8), << 65, 80, 73, 67, 12 >> }

\* n APIC tables in a row.
ManyTables(n) == Flatten([k \in 1 .. n |-> AcpiTable(SIG_APIC, 12)])

\* Blobs of up to three tables, blobs of 28 and 29 tables, and a blob whose
\* second table has length 0.
AcpiRunBlobs ==
  { e : e \in AcpiEndings }
  \cup { a \o e : a \in AcpiKinds, e \in AcpiEndings }
  \cup { a \o b \o e : a \in AcpiKinds, b \in AcpiKinds, e \in AcpiEndings }
  \cup { a \o b \o c : a \in AcpiKinds, b \in AcpiKinds, c \in AcpiKinds }
  \cup { ManyTables(28), ManyTables(29) }
  \cup { AcpiTable(SIG_FACP, 16) \o SIG_APIC \o U32LE(0) \o Zeros(8) }

InitAcpi ==
  \E bytes \in AcpiRunBlobs :
    acpiRun = [pc |-> "parse", bytes |-> bytes, offset |-> 0,
               tables |-> <<>>, commands |-> <<>>, idx |-> 0]

AcpiParsed(run, st) ==
  IF st.kind = "stop" THEN [run EXCEPT !.pc = "allocate"]
  ELSE [run EXCEPT !.tables = Append(@, st.table), !.offset = st.offset]

\* One test of the loop condition of parseAcpiTables and, when it holds,
\* one iteration; on a table of length 0 the offset stays where it is and
\* the next pass pushes the same table again, without end.
AcpiParse ==
  /\ acpiRun.pc = "parse"
  /\ acpiRun' = AcpiParsed(acpiRun, acpiStep(acpiRun.bytes, acpiRun.offset))
  /\ UNCHANGED notAcpi

\* getTableLoader up to its loop: the two ALLOCATE commands.
AcpiAllocate ==
  /\ acpiRun.pc = "allocate"
  /\ acpiRun' = [acpiRun EXCEPT !.pc = "tables", !.idx = 1,
                                !.commands =
                                  << serializeAllocate(FILE_RSDP, 16, 2),
                                     serializeAllocate(FILE_TABLES, 64, 1) >>]
  /\ UNCHANGED notAcpi

\* One iteration of for (const table of tables).
AcpiTableCommands ==
  /\ acpiRun.pc = "tables"
  /\ acpiRun.idx <= Len(acpiRun.tables)
  /\ acpiRun' = [acpiRun EXCEPT !.idx = @ + 1,
                                !.commands =
                                  @ \o tableCommands(
                                         acpiRun.tables[acpiRun.idx])]
  /\ UNCHANGED notAcpi

AcpiLoaded(run, commands, loader) ==
  IF ~loader.ok
    THEN [pc |-> "done", bytes |-> run.bytes, tables |-> run.tables,
          commands |-> commands, ok |-> FALSE, err |-> loader.err]
    ELSE [pc |-> "rsdp", bytes |-> run.bytes, tables |-> run.tables,
          commands |-> commands, loader |-> loader.val]

\* The two commands for the RSDP and return concatBytes(commands, 4096).
AcpiLoaderReturn ==
  /\ acpiRun.pc = "tables"
  /\ acpiRun.idx > Len(acpiRun.tables)
  /\ acpiRun' =
       AcpiLoaded(acpiRun,
                  acpiRun.commands
                    \o << serializeAddPointer(FILE_RSDP, FILE_TABLES, 16, 4),
                          serializeAddChecksum(FILE_RSDP, 8, 0, 20) >>,
                  getTableLoader(acpiRun.tables))
  /\ UNCHANGED notAcpi

\* getRsdp(acpiTables), called once the table loader has been measured.
AcpiRsdp ==
  /\ acpiRun.pc = "rsdp"
  /\ acpiRun' = [pc |-> "done", bytes |-> acpiRun.bytes,
                 tables |-> acpiRun.tables, commands |-> acpiRun.commands,
                 ok |-> TRUE, loader |-> acpiRun.loader,
                 rsdp |-> getRsdp(acpiRun.tables)]
  /\ UNCHANGED notAcpi

\* The passes of a loop that does not end are followed up to MaxTables
\* tables: the bound cuts the exploration short and stands for no step of
\* parseAcpiTables, which goes on pushing.
AcpiExplored == Len(acpiRun.tables) < MaxTables

NextAcpi ==
  \/ (AcpiExplored /\ AcpiParse)
  \/ AcpiAllocate
  \/ AcpiTableCommands
  \/ AcpiLoaderReturn
  \/ AcpiRsdp

\* ------------------------------------------------------------------------
\* The GUID codec as a state machine: uuidToBytes, then bytesToUuid
\* ------------------------------------------------------------------------

\* Groups of 8, 4, 4, 4 and 12 hexadecimal digits, as code units:
\* "00000000", "ffffffff", "8be4df61", "8BE4DF61"
UuidTimeLow ==
  { << 48, 48, 48, 48, 48, 48, 48, 48 >>,
    << 102, 102, 102, 102, 102, 102, 102, 102 >>,
    << 56, 98, 101, 52, 100, 102, 54, 49 >>,
    << 56, 66, 69, 52, 68, 70, 54, 49 >> }

\* "93ca", "0a0b"
UuidTimeMid == { << 57, 51, 99, 97 >>, << 48, 97, 48, 98 >> }

\* "11d2", "f00f"
UuidTimeHigh == { << 49, 49, 100, 50 >>, << 102, 48, 48, 102 >> }

\* "aa0d", "0001", "ffff"
UuidClockSeq ==
  { << 97, 97, 48, 100 >>, << 48, 48, 48, 49 >>, << 102, 102, 102, 102 >> }

\* "00e098032b8c", "ffffffffffff", "0123456789ab"
UuidNode ==
  { << 48, 48, 101, 48, 57, 56, 48, 51, 50, 98, 56, 99 >>,
    << 102, 102, 102, 102, 102, 102, 102, 102, 102, 102, 102, 102 >>,
    << 48, 49, 50, 51, 52, 53, 54, 55, 56, 57, 97, 98 >> }

UuidStrings ==
  { a \o << 45 >> \o b \o << 45 >> \o c \o << 45 >> \o d \o << 45 >> \o e :
      a \in UuidTimeLow, b \in UuidTimeMid, c \in UuidTimeHigh,
      d \in UuidClockSeq, e \in UuidNode }

InitUuid ==
  \E uuid \in UuidStrings : uuidRun = [pc |-> "encode", uuid |-> uuid]

\* const bytes = uuidToBytes(uuid)
UuidEncode ==
  /\ uuidRun.pc = "encode"
  /\ uuidRun' = [pc |-> "decode", uuid |-> uuidRun.uuid,
                 bytes |-> uuidToBytes(uuidRun.uuid)]
  /\ UNCHANGED notUuid

\* bytesToUuid(bytes)
UuidDecode ==
  /\ uuidRun.pc = "decode"
  /\ uuidRun' = [pc |-> "done", uuid |-> uuidRun.uuid,
                 bytes |-> uuidRun.bytes,
                 text |-> bytesToUuid(uuidRun.bytes)]
  /\ UNCHANGED notUuid

NextUuid == UuidEncode \/ UuidDecode

\* ------------------------------------------------------------------------
\* encodePackageLength (docs/aml.mjs) as a state machine: one step per
\* call of its inner function encode
\* ------------------------------------------------------------------------

\* The error of encode for a length of 2^28 or more.
AmlTooLarge == [ok |-> FALSE, err |-> "Package is too large"]

\* encode(length) with three length bytes at most.
encodeUpToThree(length) ==
  IF length < 64 THEN [ok |-> TRUE, val |-> << length % 64 >>]
  ELSE IF length < 4096
    THEN [ok |-> TRUE,
          val |-> << 64 + (length % 16), (length \div 16) % 256 >>]
  ELSE IF length < 1048576
    THEN [ok |-> TRUE,
          val |-> << 128 + (length % 16), (length \div 16) % 256,
                     (length \div 4096) % 256 >>]
  ELSE AmlTooLarge

\* The inner function encode(length) of encodePackageLength.
encode(length) ==
  IF length < 64 THEN [ok |-> TRUE, val |-> << length % 64 >>]
  ELSE IF length < 4096
    THEN [ok |-> TRUE,
          val |-> << 64 + (length % 16), (length \div 16) % 256 >>]
  ELSE IF length < 1048576
    THEN [ok |-> TRUE,
          val |-> << 128 + (length % 16), (length \div 16) % 256,
                     (length \div 4096) % 256 >>]
  ELSE IF length < 268435456
    THEN [ok |-> TRUE,
          val |-> << 192 + (length % 16), (length \div 16) % 256,
                     (length \div 4096) % 256, (length \div 1048576) % 256 >>]
  ELSE AmlTooLarge

\* Payload lengths around each change of the number of length bytes.
AmlLengths ==
  (0 .. 5) \cup (59 .. 68) \cup (4091 .. 4098) \cup (1048571 .. 1048578)
    \cup (268435449 .. 268435457)

InitAml ==
  \E payloadLength \in AmlLengths :
    amlRun = [pc |-> "encode", payloadLength |-> payloadLength]

AmlThrow(run, err) ==
  [pc |-> "done", payloadLength |-> run.payloadLength, ok |-> FALSE,
   err |-> err]

AmlEncoded(run, encoded) ==
  IF ~encoded.ok THEN AmlThrow(run, encoded.err)
  ELSE [pc |-> "reencode", payloadLength |-> run.payloadLength,
        encoded |-> encoded.val,
        totalLength |-> run.payloadLength + Len(encoded.val)]

\* let encoded = encode(payloadLength) and totalLength
AmlEncode ==
  /\ amlRun.pc = "encode"
  /\ amlRun' = AmlEncoded(amlRun, encode(amlRun.payloadLength))
  /\ UNCHANGED notAml

AmlReturn(run, newEncoded, encodings) ==
  [pc |-> "done", payloadLength |-> run.payloadLength, ok |-> TRUE,
   val |-> newEncoded, encodings |-> encodings]

AmlReencoded(run, newEncoded) ==
  IF ~newEncoded.ok THEN AmlThrow(run, newEncoded.err)
  ELSE IF Len(newEncoded.val) # Len(run.encoded)
    THEN [pc |-> "again", payloadLength |-> run.payloadLength,
          totalLength |-> run.payloadLength + Len(newEncoded.val)]
  ELSE AmlReturn(run, newEncoded.val, 1)

\* let newEncoded = encode(totalLength) and the comparison of the lengths.
AmlReencode ==
  /\ amlRun.pc = "reencode"
  /\ amlRun' = AmlReencoded(amlRun, encode(amlRun.totalLength))
  /\ UNCHANGED notAml

AmlEncodedAgain(run, newEncoded) ==
  IF ~newEncoded.ok THEN AmlThrow(run, newEncoded.err)
  ELSE AmlReturn(run, newEncoded.val, 2)

\* The second re-encoding, inside the if, and the return.
AmlAgain ==
  /\ amlRun.pc = "again"
  /\ amlRun' = AmlEncodedAgain(amlRun, encode(amlRun.totalLength))
  /\ UNCHANGED notAml

NextAml == AmlEncode \/ AmlReencode \/ AmlAgain

\* ------------------------------------------------------------------------
\* The kernel steps of reproduceEvents, run twice on one UKI
\* ------------------------------------------------------------------------

\* The part of reproduceEvents that reads td.software: from qemuPatchKernel
\* to the return, one step for each await. The events before it are made
\* from the firmware and the hardware alone.

\* No cmdline, the empty one, "ab", and one of 16 characters.
UkiCmdlines ==
  { Absent, Present(<<>>), Present(<< 97, 98 >>),
    Present(<< 97, 97, 97, 97, 97, 97, 97, 97,
               97, 97, 97, 97, 97, 97, 97, 97 >>) }

UkiKernels == { UkiKernel(TRUE), UkiKernel(FALSE) }

\* Run n starts on the same UKI bytes with its own initrd and cmdline.
UkiCall(softwares, n, results) ==
  [pc |-> "patch", softwares |-> softwares, run |-> n,
   kernel |-> softwares[n].kernel, events |-> <<>>, pe |-> NoPe,
   results |-> results]

InitUki ==
  \E k \in UkiKernels, i1 \in Initrds, i2 \in Initrds,
     c1 \in UkiCmdlines, c2 \in UkiCmdlines :
    ukiRun = UkiCall(<< Software(k, i1, c1), Software(k, i2, c2) >>, 1, <<>>)

\* The run is over: the second run follows the first.
UkiSettled(run, result) ==
  LET results == Append(run.results, result)
  IN  IF run.run = 1 THEN UkiCall(run.softwares, 2, results)
      ELSE [run EXCEPT !.pc = "done", !.results = results]

UkiThrown(run, err) == UkiSettled(run, [ok |-> FALSE, err |-> err])

\* parsePe, the search for .linux and getPeHashPreimage of the patched
\* kernel: the run waits for the digest of the image.
UkiParsed(run, kernel, pe, preimage) ==
  IF ~pe.ok THEN UkiThrown(run, pe.err)
  ELSE IF ~preimage.ok THEN UkiThrown(run, preimage.err)
  ELSE [run EXCEPT
          !.pc = "image",
          !.kernel = kernel,
          !.pe = [ok |-> TRUE, sections |-> pe.sections,
                  linuxSection |-> findLinuxSection(pe),
                  preimage |-> preimage.val]]

\* qemuPatchKernel(td.software, td.hardware.totalMemoryBytes) on 1 GiB,
\* parsePe and getPeHashPreimage, up to the await of the digest.
UkiPatch ==
  /\ ukiRun.pc = "patch"
  /\ LET patch == qemuPatchKernel(
                    [ukiRun.softwares[ukiRun.run]
                       EXCEPT !.kernel = ukiRun.kernel],
                    DefaultRam)
     IN  ukiRun' =
           IF ~patch.ok THEN UkiThrown(ukiRun, patch.err)
           ELSE UkiParsed(ukiRun, patch.kernel, parsePe(patch.kernel),
                          getPeHashPreimage(patch.kernel))
  /\ UNCHANGED notUki

\* One await addEvent(...) of the run: the event is pushed.
UkiAddEvent(from, to, name, type, register, metadata, preimage) ==
  /\ ukiRun.pc = from
  /\ ukiRun' = [ukiRun EXCEPT
                  !.pc = to,
                  !.events = addEvent(@, name, type, register, metadata,
                                      preimage)]
  /\ UNCHANGED notUki

\* The event of the kernel image.
UkiImage ==
  UkiAddEvent("image", "bootorder",
              IF ukiRun.pe.linuxSection.found
                THEN "Linux unified kernel image" ELSE "Linux kernel",
              "EV_EFI_BOOT_SERVICES_APPLICATION", 1, <<>>,
              ukiRun.pe.preimage)

UkiBootOrder ==
  UkiAddEvent("bootorder", "boot0000", "BootOrder boot variable",
              "EV_EFI_VARIABLE_BOOT", 0, <<>>, Zeros(2))

UkiBoot0000 ==
  UkiAddEvent("boot0000", "action0", "Boot0000 boot variable",
              "EV_EFI_VARIABLE_BOOT", 0, <<>>, getUiAppBootOption)

UkiAction0 ==
  UkiAddEvent("action0", "sep2", EFI_ACTION_NAMES[1], "EV_EFI_ACTION", 1,
              <<>>, utf8encode(EFI_ACTIONS[1]))

UkiSeparator2 ==
  UkiAddEvent("sep2", "linux", "Separator", "EV_SEPARATOR", 0, <<>>,
              Zeros(4))

UkiIsUki == ukiRun.pe.ok /\ ukiRun.pe.linuxSection.found

UkiLinuxEvent(run, inner) ==
  IF ~inner.ok THEN UkiThrown(run, inner.err)
  ELSE [run EXCEPT
          !.pc = "cmdline",
          !.events = addEvent(@, "Linux kernel",
                              "EV_EFI_BOOT_SERVICES_APPLICATION", 1, <<>>,
                              inner.val)]

\* if (linuxSection): the kernel inside the UKI is measured.
UkiLinuxKernel ==
  /\ ukiRun.pc = "linux"
  /\ UkiIsUki
  /\ ukiRun' = UkiLinuxEvent(
                 ukiRun,
                 getPeHashPreimage(
                   viewBytes(ukiRun.kernel,
                             ukiRun.pe.linuxSection.section.body)))
  /\ UNCHANGED notUki

\* td.software of the run, its kernel patched.
UkiSoftware == [ukiRun.softwares[ukiRun.run] EXCEPT !.kernel = ukiRun.kernel]

\* let initrd, let cmdline after the if / else on isUki.
UkiEventInitrd == eventInitrd(UkiSoftware, ukiRun.pe, UkiIsUki)

UkiEventCmdline == eventCmdline(UkiSoftware, ukiRun.pe, UkiIsUki)

\* Control stands before if (cmdline !== null), if (initrd), the last events.
UkiAtCmdline ==
  ukiRun.pc = "cmdline" \/ (ukiRun.pc = "linux" /\ ~UkiIsUki)

UkiAtInitrd ==
  ukiRun.pc = "initrd" \/ (UkiAtCmdline /\ ~UkiEventCmdline.present)

UkiAtAction1 ==
  ukiRun.pc = "action1" \/ (UkiAtInitrd /\ ~UkiEventInitrd.present)

UkiCmdline ==
  /\ UkiAtCmdline
  /\ UkiEventCmdline.present
  /\ ukiRun' = [ukiRun EXCEPT
                  !.pc = "initrd",
                  !.events =
                    addEvent(@, "Linux kernel command-line parameters",
                             "EV_EVENT_TAG", 2,
                             << << "cmdline", UkiEventCmdline.val >>,
                                << "tagName",
                                   "LOADED_IMAGE::LoadOptions" >> >>,
                             utf16LeEncode(UkiEventCmdline.val \o << 0 >>))]
  /\ UNCHANGED notUki

UkiInitrd ==
  /\ UkiAtInitrd
  /\ UkiEventInitrd.present
  /\ ukiRun' = [ukiRun EXCEPT
                  !.pc = "action1",
                  !.events = addEvent(@, "Linux initial ramdisk",
                                      "EV_EVENT_TAG", 2, <<>>,
                                      UkiEventInitrd.val)]
  /\ UNCHANGED notUki

UkiAction1 ==
  /\ UkiAtAction1
  /\ ukiRun' = [ukiRun EXCEPT
                  !.pc = "action2",
                  !.events = addEvent(@, EFI_ACTION_NAMES[2], "EV_EFI_ACTION",
                                      1, <<>>, utf8encode(EFI_ACTIONS[2]))]
  /\ UNCHANGED notUki

\* The last event; reproduceEvents returns the events.
UkiAction2 ==
  /\ ukiRun.pc = "action2"
  /\ ukiRun' = UkiSettled(
                 ukiRun,
                 [ok |-> TRUE,
                  events |-> addEvent(ukiRun.events, EFI_ACTION_NAMES[3],
                                      "EV_EFI_ACTION", 1, <<>>,
                                      utf8encode(EFI_ACTIONS[3]))])
  /\ UNCHANGED notUki

NextUki ==
  \/ UkiPatch
  \/ UkiImage
  \/ UkiBootOrder
  \/ UkiBoot0000
  \/ UkiAction0
  \/ UkiSeparator2
  \/ UkiLinuxKernel
  \/ UkiCmdline
  \/ UkiInitrd
  \/ UkiAction1
  \/ UkiAction2

\* ------------------------------------------------------------------------
\* The page: change listeners, updateMrtd and updateRtmr
\* ------------------------------------------------------------------------

\* The page calls the core on the files the user has picked. A file is
\* none (nothing picked), good, or bad: parseFirmware throws on a bad
\* firmware file, parsePe on a bad kernel or UKI. A good kernel carries a
\* boot header of protocol 2.12 or later, as does a bad one; a good initrd
\* is shorter than the smallest RAM less ACPI_DATA_SIZE.

\* The number of change events the user raises.
MaxChanges == 2

UiFiles == { "none", "good", "bad" }

\* The files picked as initrd and as ACPI tables.
UiPlainFiles == { "none", "good" }

UiCmdlines == { "a", "b" }

\* parseInt of the cpu field: NaN (null), a valid count, one above 256.
UiCpuCounts == { Absent, Present(2), Present(300) }

\* parseInt of the ram field, MiB: NaN (null), below 256, a valid size.
UiRamMbs == { Absent, Present(100), Present(2048) }

\* parseInt of the disks field: NaN (null), a valid count, one above 8.
UiDiskCounts == { Absent, Present(1), Present(9) }

\* hardware-configuration: "custom", or the value of any other option.
UiConfigurations == { "preset", "custom" }

UiPayloadTypes == { "uki", "kernel-initrd" }

\* null
UiNull == <<>>

\* mrtdModel and rtmrModel as the module creates them.
UiModel == [value |-> UiNull, calculating |-> FALSE, error |-> ""]

\* hardwareModel.isCustom
UiIsCustom(hardware) == hardware.configuration = "custom"

\* hardwareModel.isFilled
UiHardwareIsFilled(hardware) ==
  /\ hardware.ramMb.present
  /\ IF UiIsCustom(hardware) THEN hardware.acpiTables # "none"
     ELSE hardware.cpuCount.present /\ hardware.diskCount.present

\* hardwareModel.isValid
UiHardwareIsValid(hardware) ==
  /\ ~hardware.ramMb.present \/ hardware.ramMb.val >= 256
  /\ \/ UiIsCustom(hardware)
     \/ /\ \/ ~hardware.cpuCount.present
           \/ hardware.cpuCount.val > 0 /\ hardware.cpuCount.val <= 256
        /\ \/ ~hardware.diskCount.present
           \/ hardware.diskCount.val >= 0 /\ hardware.diskCount.val <= 8

\* hardwareModel.ramBytes: ramMb * 1024 * 1024, or null.
UiRamBytes(hardware) ==
  IF hardware.ramMb.present THEN Present(<< hardware.ramMb.val * 256, 0 >>)
  ELSE Absent

\* hardwareModel.getAcpiTables(): the bytes of the picked file, the tables
\* getAcpi makes of the three numbers, or null.
UiGetAcpiTables(hardware) ==
  IF UiIsCustom(hardware)
    THEN IF hardware.acpiTables # "none" THEN Present(hardware.acpiTables)
         ELSE Absent
  ELSE IF ~UiHardwareIsFilled(hardware) \/ ~UiHardwareIsValid(hardware)
    THEN Absent
  ELSE Present(<< "getAcpi", hardware.cpuCount.val,
                  UiRamBytes(hardware).val, hardware.diskCount.val >>)

\* softwareModel.isUki
UiIsUki(software) == software.payloadType = "uki"

\* softwareModel.isFilled
UiSoftwareIsFilled(software) ==
  IF UiIsUki(software) THEN software.uki # "none"
  ELSE software.kernel # "none" /\ software.initrd # "none"

\* isInputMissing of rtmrView.render.
isInputMissing(ui) ==
  \/ ~UiSoftwareIsFilled(ui.software)
  \/ ui.firmware = "none"
  \/ ~UiHardwareIsFilled(ui.hardware)
  \/ ~UiHardwareIsValid(ui.hardware)

\* What rtmrView.render leaves visible: the error text whenever there is
\* one, else the registers and events, else the note that inputs are
\* missing, each unless hidden.
rtmrShown(ui) ==
  IF ui.rtmrModel.error # ""
    THEN [kind |-> "error", error |-> ui.rtmrModel.error]
  ELSE IF ui.rtmrModel.value # UiNull /\ ~ui.rtmrModel.calculating
            /\ ~isInputMissing(ui)
    THEN [kind |-> "value", value |-> ui.rtmrModel.value]
  ELSE IF isInputMissing(ui) /\ ~ui.rtmrModel.calculating
    THEN [kind |-> "none"]
  ELSE [kind |-> "blank"]

\* parseFirmware on the bytes of a picked file.
UiParseFirmware(file) ==
  IF file = "bad" THEN [ok |-> FALSE, err |-> "Wrong table footer guid"]
  ELSE [ok |-> TRUE, val |-> file]

\* What reproduceRtmr(td) settles with: qemuPatchKernel writes beyond an
\* empty kernel, refuses every initrd when the RAM size is null, and
\* parsePe follows.
UiReproduceRtmr(uiTd) ==
  IF uiTd.software.kernel = "none"
    THEN [ok |-> FALSE, err |-> "Offset is outside the bounds of the DataView"]
  ELSE IF uiTd.software.initrd # "undefined"
            /\ ~uiTd.hardware.totalMemoryBytes.present
    THEN [ok |-> FALSE, err |-> "RAM disk is too large"]
  ELSE IF uiTd.software.kernel = "bad"
    THEN [ok |-> FALSE, err |-> "Invalid PE signature"]
  ELSE [ok |-> TRUE, val |-> << "rtmr", uiTd >>]

\* What reproduceMrtd(firmware) resolves with.
UiReproduceMrtd(firmware) == << "mrtd", firmware >>

\* getTd up to its await: null at once unless the hardware is filled and
\* valid and the software filled, else the reads of the files picked now
\* and the call of getAcpiTables.
getTd(ui) ==
  IF \/ ~UiHardwareIsFilled(ui.hardware)
     \/ ~UiHardwareIsValid(ui.hardware)
     \/ ~UiSoftwareIsFilled(ui.software)
    THEN [pc |-> "getTd", filled |-> FALSE]
  ELSE [pc |-> "getTd", filled |-> TRUE, firmware |-> ui.firmware,
        acpi |-> UiGetAcpiTables(ui.hardware), uki |-> ui.software.uki,
        kernel |-> ui.software.kernel, initrd |-> ui.software.initrd]

\* getTd after its await, on what the call has read and on isUki, ramBytes
\* and cmdline as the models hold them now: null, the throw of
\* parseFirmware, or the TrustDomain. new Uint8Array(undefined) is empty.
UiTrustDomain(call, ui) ==
  LET firmware == UiParseFirmware(call.firmware)
      uki == UiIsUki(ui.software)
  IN  IF ~call.filled \/ call.firmware = "none" \/ ~call.acpi.present
        THEN [ok |-> TRUE, td |-> UiNull]
      ELSE IF ~firmware.ok THEN firmware
      ELSE [ok |-> TRUE,
            td |-> [hardware |->
                      [totalMemoryBytes |-> UiRamBytes(ui.hardware),
                       acpiTables |-> call.acpi.val],
                    firmware |-> firmware.val,
                    software |->
                      [kernel |-> IF uki THEN call.uki ELSE call.kernel,
                       initrd |-> IF uki THEN "undefined" ELSE call.initrd,
                       cmdline |-> IF uki THEN "undefined"
                                   ELSE ui.software.cmdline]]]

\* updateRtmr up to its first await: the flags, and getTd up to its await.
updateRtmr(ui) ==
  [ui EXCEPT
     !.rtmrModel.calculating = TRUE,
     !.rtmrModel.error = "",
     !.rtmrCalls = Append(@, getTd(ui))]

\* updateMrtd up to its first await: the flags and the read of the
\* firmware file picked now.
updateMrtd(ui) ==
  [ui EXCEPT
     !.mrtdModel.calculating = TRUE,
     !.mrtdModel.error = "",
     !.mrtdCalls = Append(@, [pc |-> "buffer", firmware |-> ui.firmware])]

\* A sequence without its element i.
UiWithout(s, i) == SubSeq(s, 1, i - 1) \o SubSeq(s, i + 1, Len(s))

\* The fields as the page presents them: a configuration of the list, 2
\* cores, 2048 MiB, one disk, no file of ACPI tables.
UiHardware ==
  [cpuCount |-> Present(2), ramMb |-> Present(2048),
   diskCount |-> Present(1), configuration |-> "preset",
   acpiTables |-> "none"]

\* The models read the fields as the browser has kept them: a UKI, or a
\* kernel with its initrd, or neither.
InitUi ==
  \E f \in UiFiles, p \in UiPayloadTypes, s \in UiFiles, c \in UiCmdlines :
    uiRun = [pc |-> "loading", firmware |-> f, hardware |-> UiHardware,
             software |->
               [payloadType |-> p,
                uki |-> IF p = "uki" THEN s ELSE "none",
                kernel |-> IF p = "uki" THEN "none" ELSE s,
                initrd |-> IF p = "uki" \/ s = "none" THEN "none"
                           ELSE "good",
                cmdline |-> c],
             mrtdModel |-> UiModel, rtmrModel |-> UiModel,
             mrtdCalls |-> <<>>, rtmrCalls |-> <<>>, changes |-> 0]

\* DOMContentLoaded: render, updateMrtd, updateRtmr.
UiLoaded ==
  /\ uiRun.pc = "loading"
  /\ uiRun' = updateRtmr(updateMrtd([uiRun EXCEPT !.pc = "page"]))
  /\ UNCHANGED notUi

\* The change listener of the firmware file.
UiChangeFirmware ==
  /\ uiRun.pc = "page"
  /\ uiRun.changes < MaxChanges
  /\ \E f \in UiFiles :
       uiRun' = updateRtmr(updateMrtd([uiRun EXCEPT !.firmware = f,
                                                    !.changes = @ + 1]))
  /\ UNCHANGED notUi

\* A change listener of the hardware or the software: the model is set,
\* render and updateRtmr follow.
UiChanged(ui) ==
  /\ uiRun.pc = "page"
  /\ uiRun.changes < MaxChanges
  /\ uiRun' = updateRtmr([ui EXCEPT !.changes = @ + 1])
  /\ UNCHANGED notUi

UiChangeCpu ==
  \E n \in UiCpuCounts : UiChanged([uiRun EXCEPT !.hardware.cpuCount = n])

UiChangeRam ==
  \E n \in UiRamMbs : UiChanged([uiRun EXCEPT !.hardware.ramMb = n])

UiChangeDisks ==
  \E n \in UiDiskCounts : UiChanged([uiRun EXCEPT !.hardware.diskCount = n])

UiChangeConfiguration ==
  \E c \in UiConfigurations :
    UiChanged([uiRun EXCEPT !.hardware.configuration = c])

UiChangeAcpiTables ==
  \E f \in UiPlainFiles :
    UiChanged([uiRun EXCEPT !.hardware.acpiTables = f])

UiChangePayloadType ==
  \E p \in UiPayloadTypes :
    UiChanged([uiRun EXCEPT !.software.payloadType = p])

UiChangeUki ==
  \E f \in UiFiles : UiChanged([uiRun EXCEPT !.software.uki = f])

UiChangeKernel ==
  \E f \in UiFiles : UiChanged([uiRun EXCEPT !.software.kernel = f])

UiChangeInitrd ==
  \E f \in UiPlainFiles : UiChanged([uiRun EXCEPT !.software.initrd = f])

UiChangeCmdline ==
  \E c \in UiCmdlines : UiChanged([uiRun EXCEPT !.software.cmdline = c])

\* catch and finally of updateRtmr, the invocation i being over.
UiRtmrFinished(ui, i, model) ==
  [ui EXCEPT !.rtmrModel = [model EXCEPT !.calculating = FALSE],
             !.rtmrCalls = UiWithout(@, i)]

\* await getTd() of invocation i is over: null, the throw of
\* parseFirmware, or the TrustDomain handed to reproduceRtmr.
UiRtmrGotTd(ui, i, got) ==
  IF ~got.ok
    THEN UiRtmrFinished(ui, i, [ui.rtmrModel EXCEPT !.error = got.err])
  ELSE IF got.td = UiNull
    THEN UiRtmrFinished(ui, i, [ui.rtmrModel EXCEPT !.value = UiNull])
  ELSE [ui EXCEPT !.rtmrCalls[i] = [pc |-> "reproduce", td |-> got.td]]

UiRtmrTd ==
  /\ uiRun.pc = "page"
  /\ \E i \in 1 .. Len(uiRun.rtmrCalls) :
       /\ uiRun.rtmrCalls[i].pc = "getTd"
       /\ uiRun' = UiRtmrGotTd(uiRun, i,
                               UiTrustDomain(uiRun.rtmrCalls[i], uiRun))
  /\ UNCHANGED notUi

\* await reproduceRtmr(td) of invocation i is over.
UiRtmrSettled(ui, i, outcome) ==
  UiRtmrFinished(ui, i,
    IF outcome.ok THEN [ui.rtmrModel EXCEPT !.value = outcome.val]
    ELSE [ui.rtmrModel EXCEPT !.error = outcome.err])

UiRtmrDone ==
  /\ uiRun.pc = "page"
  /\ \E i \in 1 .. Len(uiRun.rtmrCalls) :
       /\ uiRun.rtmrCalls[i].pc = "reproduce"
       /\ uiRun' = UiRtmrSettled(uiRun, i,
                                 UiReproduceRtmr(uiRun.rtmrCalls[i].td))
  /\ UNCHANGED notUi

\* catch and finally of updateMrtd, the invocation i being over.
UiMrtdFinished(ui, i, model) ==
  [ui EXCEPT !.mrtdModel = [model EXCEPT !.calculating = FALSE],
             !.mrtdCalls = UiWithout(@, i)]

\* await firmwareModel.file?.arrayBuffer() of invocation i is over.
UiMrtdGotBuffer(ui, i) ==
  LET call == ui.mrtdCalls[i]
      firmware == UiParseFirmware(call.firmware)
  IN  IF call.firmware = "none" THEN UiMrtdFinished(ui, i, ui.mrtdModel)
      ELSE IF ~firmware.ok
        THEN UiMrtdFinished(ui, i, [ui.mrtdModel EXCEPT !.error = firmware.err])
      ELSE [ui EXCEPT !.mrtdCalls[i] =
                        [pc |-> "reproduce", firmware |-> firmware.val]]

UiMrtdBuffer ==
  /\ uiRun.pc = "page"
  /\ \E i \in 1 .. Len(uiRun.mrtdCalls) :
       /\ uiRun.mrtdCalls[i].pc = "buffer"
       /\ uiRun' = UiMrtdGotBuffer(uiRun, i)
  /\ UNCHANGED notUi

\* await reproduceMrtd(...) of invocation i is over.
UiMrtdDone ==
  /\ uiRun.pc = "page"
  /\ \E i \in 1 .. Len(uiRun.mrtdCalls) :
       /\ uiRun.mrtdCalls[i].pc = "reproduce"
       /\ uiRun' =
            UiMrtdFinished(uiRun, i,
              [uiRun.mrtdModel EXCEPT
                 !.value = UiReproduceMrtd(uiRun.mrtdCalls[i].firmware)])
  /\ UNCHANGED notUi

NextUi ==
  \/ UiLoaded
  \/ UiChangeFirmware
  \/ UiChangeCpu
  \/ UiChangeRam
  \/ UiChangeDisks
  \/ UiChangeConfiguration
  \/ UiChangeAcpiTables
  \/ UiChangePayloadType
  \/ UiChangeUki
  \/ UiChangeKernel
  \/ UiChangeInitrd
  \/ UiChangeCmdline
  \/ UiRtmrTd
  \/ UiRtmrDone
  \/ UiMrtdBuffer
  \/ UiMrtdDone

\* ------------------------------------------------------------------------
\* Specifications
\* ------------------------------------------------------------------------

vars == << rtmrVars, hobRun, peRun, patchRun, fwRun, mrtdRun, acpiRun,
     uuidRun,
     amlRun,
     ukiRun,
     uiRun >>

rtmrOff ==
  /\ td = [off |-> TRUE]
  /\ pc = "off"
  /\ events = <<>>
  /\ registers = <<>>
  /\ foldIdx = 0
  /\ cfvIdx = 0
  /\ acpiTables = <<>>
  /\ kernelPe = NoPe
  /\ calls = 0
  /\ outcomes = <<>>
  /\ mrtds = <<>>

peOff == [pc |-> "off"]

patchOff == [pc |-> "off"]

fwOff == [pc |-> "off"]

mrtdOff == [pc |-> "off"]

acpiOff == [pc |-> "off"]

uiOff == [pc |-> "off"]

ukiOff == [pc |-> "off"]

amlOff == [pc |-> "off"]

uuidOff == [pc |-> "off"]

\* reproduceRtmr and reproduceMrtd called on one TrustDomain.
Init ==
  /\ InitRtmr
  /\ hobRun = hobOff
  /\ uiRun = uiOff
  /\ ukiRun = ukiOff
  /\ amlRun = amlOff
  /\ uuidRun = uuidOff
  /\ acpiRun = acpiOff
  /\ peRun = peOff
  /\ patchRun = patchOff
  /\ fwRun = fwOff
  /\ mrtdRun = mrtdOff

Next == NextRtmr

Spec == Init /\ [][Next]_vars

\* getHobHashPreimage called on a section list and a RAM size.
InitOfHob ==
  /\ InitHob
  /\ rtmrOff
  /\ uiRun = uiOff
  /\ ukiRun = ukiOff
  /\ amlRun = amlOff
  /\ uuidRun = uuidOff
  /\ acpiRun = acpiOff
  /\ peRun = peOff
  /\ patchRun = patchOff
  /\ fwRun = fwOff
  /\ mrtdRun = mrtdOff

SpecHob == InitOfHob /\ [][NextHob]_vars

\* getPeHashPreimage called on an image.
InitOfPe ==
  /\ InitPe
  /\ rtmrOff
  /\ uiRun = uiOff
  /\ ukiRun = ukiOff
  /\ amlRun = amlOff
  /\ uuidRun = uuidOff
  /\ acpiRun = acpiOff
  /\ hobRun = hobOff
  /\ patchRun = patchOff
  /\ fwRun = fwOff
  /\ mrtdRun = mrtdOff

SpecPe == InitOfPe /\ [][NextPe]_vars

\* qemuPatchKernel called twice, on copies of one kernel, with two RAM sizes.
InitOfPatch ==
  /\ InitPatch
  /\ rtmrOff
  /\ uiRun = uiOff
  /\ ukiRun = ukiOff
  /\ amlRun = amlOff
  /\ uuidRun = uuidOff
  /\ acpiRun = acpiOff
  /\ hobRun = hobOff
  /\ peRun = peOff
  /\ fwRun = fwOff
  /\ mrtdRun = mrtdOff

SpecPatch == InitOfPatch /\ [][NextPatch]_vars

\* reproduceMrtd called on a parsed firmware.
InitOfMrtd ==
  /\ InitMrtd
  /\ rtmrOff
  /\ uiRun = uiOff
  /\ ukiRun = ukiOff
  /\ amlRun = amlOff
  /\ uuidRun = uuidOff
  /\ acpiRun = acpiOff
  /\ hobRun = hobOff
  /\ peRun = peOff
  /\ patchRun = patchOff
  /\ fwRun = fwOff

SpecMrtd == InitOfMrtd /\ [][NextMrtd]_vars

\* parseFirmware called on an image.
InitOfFw ==
  /\ InitFw
  /\ rtmrOff
  /\ uiRun = uiOff
  /\ ukiRun = ukiOff
  /\ amlRun = amlOff
  /\ uuidRun = uuidOff
  /\ acpiRun = acpiOff
  /\ hobRun = hobOff
  /\ peRun = peOff
  /\ patchRun = patchOff
  /\ mrtdRun = mrtdOff

SpecFw == InitOfFw /\ [][NextFw]_vars

\* parseFirmware runs to its end once called: every step that changes the
\* state is taken.
SpecFwFair == SpecFw /\ WF_vars(NextFw)

\* parseAcpiTables, getTableLoader and getRsdp called on an ACPI blob.
InitOfAcpi ==
  /\ InitAcpi
  /\ rtmrOff
  /\ uiRun = uiOff
  /\ ukiRun = ukiOff
  /\ amlRun = amlOff
  /\ uuidRun = uuidOff
  /\ hobRun = hobOff
  /\ peRun = peOff
  /\ patchRun = patchOff
  /\ fwRun = fwOff
  /\ mrtdRun = mrtdOff

SpecAcpi == InitOfAcpi /\ [][NextAcpi]_vars

\* parseAcpiTables runs on once called: every pass of its loop that
\* changes the state is taken.
SpecAcpiFair == SpecAcpi /\ WF_vars(AcpiExplored /\ AcpiParse)

\* uuidToBytes called on a UUID string and bytesToUuid on its result.
InitOfUuid ==
  /\ InitUuid
  /\ rtmrOff
  /\ uiRun = uiOff
  /\ ukiRun = ukiOff
  /\ amlRun = amlOff
  /\ hobRun = hobOff
  /\ peRun = peOff
  /\ patchRun = patchOff
  /\ fwRun = fwOff
  /\ mrtdRun = mrtdOff
  /\ acpiRun = acpiOff

SpecUuid == InitOfUuid /\ [][NextUuid]_vars

\* encodePackageLength called on a payload length.
InitOfAml ==
  /\ InitAml
  /\ rtmrOff
  /\ uiRun = uiOff
  /\ ukiRun = ukiOff
  /\ hobRun = hobOff
  /\ peRun = peOff
  /\ patchRun = patchOff
  /\ fwRun = fwOff
  /\ mrtdRun = mrtdOff
  /\ acpiRun = acpiOff
  /\ uuidRun = uuidOff

SpecAml == InitOfAml /\ [][NextAml]_vars

\* The kernel steps of reproduceEvents, run twice on one UKI.
InitOfUki ==
  /\ InitUki
  /\ rtmrOff
  /\ uiRun = uiOff
  /\ hobRun = hobOff
  /\ peRun = peOff
  /\ patchRun = patchOff
  /\ fwRun = fwOff
  /\ mrtdRun = mrtdOff
  /\ acpiRun = acpiOff
  /\ uuidRun = uuidOff
  /\ amlRun = amlOff

SpecUki == InitOfUki /\ [][NextUki]_vars

\* The page with its change listeners and updates.
InitOfUi ==
  /\ InitUi
  /\ rtmrOff
  /\ hobRun = hobOff
  /\ peRun = peOff
  /\ patchRun = patchOff
  /\ fwRun = fwOff
  /\ mrtdRun = mrtdOff
  /\ acpiRun = acpiOff
  /\ uuidRun = uuidOff
  /\ amlRun = amlOff
  /\ ukiRun = ukiOff

SpecUi == InitOfUi /\ [][NextUi]_vars

\* ------------------------------------------------------------------------
\* Properties of reproduceRtmr
\* ------------------------------------------------------------------------

\* Register i after the first n events of evs, by the definition of the
\* fold: SHA-384(previous || digest) for each event that targets i.
RECURSIVE foldOver(_, _, _)
foldOver(evs, i, n) ==
  IF n = 0 THEN Zeros(48)
  ELSE IF evs[n].register = i
    THEN sha384(foldOver(evs, i, n - 1) \o evs[n].digest)
  ELSE foldOver(evs, i, n - 1)

Finished == { k \in 1..Len(outcomes) : outcomes[k].status = "ok" }

\* C1: while the fold runs, and in what reproduceRtmr returns, register i is
\* the left fold r := SHA-384(r || digest) from 48 zero bytes over the events
\* of register i among those processed so far, in list order; a register no
\* event targets stays 48 zero bytes.
C1_RegistersAreFold ==
  /\ pc = "fold" =>
       /\ Len(registers) = 4
       /\ \A i \in 0..3 : registers[i + 1] = foldOver(events, i, foldIdx - 1)
  /\ \A k \in Finished :
       /\ Len(outcomes[k].registers) = 4
       /\ \A i \in 0..3 :
            /\ outcomes[k].registers[i + 1]
                 = foldOver(outcomes[k].events, i, Len(outcomes[k].events))
            /\ (\A n \in 1..Len(outcomes[k].events) :
                  outcomes[k].events[n].register # i)
                 => outcomes[k].registers[i + 1] = Zeros(48)

\* A call has returned registers folded over events on registers 0, 1 and 2,
\* with register 3 untouched.
C1_Witness ==
  \E k \in Finished :
    /\ \A i \in 0..2 : \E n \in 1..Len(outcomes[k].events) :
         outcomes[k].events[n].register = i
    /\ outcomes[k].registers[1] # Zeros(48)
    /\ outcomes[k].registers[4] = Zeros(48)

\* Whether the kernel image of td has a section named ".linux\0\0", read off
\* the section table.
HasLinuxSection ==
  LET pe == parsePe(td.software.kernel)
  IN  pe.ok /\ \E n \in 1..Len(pe.sections) : pe.sections[n].name = NAME_LINUX

\* What identifies an event in the order of the log: type, register, and the
\* variable or file it is about (its name where it has neither).
Shape(ev) ==
  << ev.type, ev.register,
     IF ev.type \in { "EV_EFI_VARIABLE_DRIVER_CONFIG",
                      "EV_PLATFORM_CONFIG_FLAGS" }
       THEN ev.metadata[1][2]
       ELSE ev.name >>

CfvCount ==
  Cardinality({ n \in 1..Len(td.firmware.tdxMetadataSections) :
                  td.firmware.tdxMetadataSections[n].sectionType = "CFV" })

ShapesBeforePayload ==
  << << "EV_EFI_HANDOFF_TABLES2", 0, "TD Hand-Off Block (HOB)" >> >>
  \o [n \in 1..CfvCount |->
        << "EV_EFI_PLATFORM_FIRMWARE_BLOB2", 0,
           "Configuration Firmware Volume (CFV)" >>]
  \o << << "EV_EFI_VARIABLE_DRIVER_CONFIG", 0, "SecureBoot" >>,
        << "EV_EFI_VARIABLE_DRIVER_CONFIG", 0, "PK" >>,
        << "EV_EFI_VARIABLE_DRIVER_CONFIG", 0, "KEK" >>,
        << "EV_EFI_VARIABLE_DRIVER_CONFIG", 0, "db" >>,
        << "EV_EFI_VARIABLE_DRIVER_CONFIG", 0, "dbx" >>,
        << "EV_SEPARATOR", 0, "Separator" >>,
        << "EV_PLATFORM_CONFIG_FLAGS", 0, "etc/table-loader" >>,
        << "EV_PLATFORM_CONFIG_FLAGS", 0, "etc/acpi/rsdp" >>,
        << "EV_PLATFORM_CONFIG_FLAGS", 0, "etc/acpi/tables" >>,
        << "EV_EFI_BOOT_SERVICES_APPLICATION", 1, "Linux kernel" >>,
        << "EV_EFI_VARIABLE_BOOT", 0, "BootOrder boot variable" >>,
        << "EV_EFI_VARIABLE_BOOT", 0, "Boot0000 boot variable" >>,
        << "EV_EFI_ACTION", 1, "Calling EFI Application from Boot Option" >>,
        << "EV_SEPARATOR", 0, "Separator" >> >>

ShapeCmdline ==
  << "EV_EVENT_TAG", 2, "Linux kernel command-line parameters" >>

ShapeInitrd == << "EV_EVENT_TAG", 2, "Linux initial ramdisk" >>

ShapesAfterPayload ==
  << << "EV_EFI_ACTION", 1, "Exit Boot Services Invocation" >>,
     << "EV_EFI_ACTION", 1, "Exit Boot Services Returned with Success" >> >>

\* The j-th CFV section of the firmware, in metadata order.
RECURSIVE nthCfv(_, _, _)
nthCfv(sections, from, j) ==
  IF sections[from].sectionType = "CFV"
    THEN IF j = 1 THEN sections[from] ELSE nthCfv(sections, from + 1, j - 1)
    ELSE nthCfv(sections, from + 1, j)

\* C2: a successful run on a non-UKI kernel and a firmware with k CFV
\* sections logs, in this order: HOB, the k CFV sections in metadata order,
\* SecureBoot, PK, KEK, db, dbx, a separator, table-loader, rsdp, tables, the
\* kernel, BootOrder, Boot0000, an action, a separator, then the cmdline
\* and / or the initrd if any, then two actions; each with its type and
\* register, and none on register 3.
C2_EventOrder ==
  \A k \in Finished :
    ~HasLinuxSection =>
      LET shapes == [n \in 1..Len(outcomes[k].events) |->
                       Shape(outcomes[k].events[n])]
      IN  /\ \E payload \in { <<>>, << ShapeCmdline >>, << ShapeInitrd >>,
                              << ShapeCmdline, ShapeInitrd >> } :
               shapes = ShapesBeforePayload \o payload \o ShapesAfterPayload
          /\ \A j \in 1..CfvCount :
               outcomes[k].events[1 + j].digest
                 = sha384(cfvPreimage(td.firmware,
                                      nthCfv(td.firmware.tdxMetadataSections,
                                             1, j)))
          /\ \A n \in 1..Len(shapes) : shapes[n][2] # 3

\* A successful non-UKI run on a firmware with two CFV sections that logged
\* both the cmdline and the initrd.
C2_Witness ==
  \E k \in Finished :
    /\ ~HasLinuxSection
    /\ CfvCount = 2
    /\ Len(outcomes[k].events) = Len(ShapesBeforePayload) + 4

\* The positions of the events of a type in a list.
OfType(evs, type) == { n \in 1..Len(evs) : evs[n].type = type }

MinOf(S) == CHOOSE n \in S : \A m \in S : n <= m

MaxOf(S) == CHOOSE n \in S : \A m \in S : n >= m

\* The .linux section of the kernel image of td, read off the section table.
LinuxBody ==
  LET pe == parsePe(td.software.kernel)
      n == CHOOSE n \in 1..Len(pe.sections) : pe.sections[n].name = NAME_LINUX
  IN  viewBytes(td.software.kernel, pe.sections[n].body)

\* C3: in a successful run, the kernel image has a section ".linux\0\0" if
\* and only if the log has exactly two EV_EFI_BOOT_SERVICES_APPLICATION
\* events: "Linux unified kernel image" over the PE preimage of the whole
\* patched kernel, then "Linux kernel" right after the second separator and
\* before any EV_EVENT_TAG, over the PE preimage of the body of .linux;
\* otherwise it has exactly one, "Linux kernel".
C3_UkiEvents ==
  \A k \in Finished :
    LET evs == outcomes[k].events
        apps == OfType(evs, "EV_EFI_BOOT_SERVICES_APPLICATION")
        seps == OfType(evs, "EV_SEPARATOR")
        tags == OfType(evs, "EV_EVENT_TAG")
    IN  /\ HasLinuxSection <=> Cardinality(apps) = 2
        /\ HasLinuxSection =>
             /\ evs[MinOf(apps)].name = "Linux unified kernel image"
             /\ evs[MinOf(apps)].digest
                  = sha384(getPeHashPreimage(td.software.kernel).val)
             /\ evs[MaxOf(apps)].name = "Linux kernel"
             /\ Cardinality(seps) = 2
             /\ MaxOf(apps) = MaxOf(seps) + 1
             /\ \A n \in tags : MaxOf(apps) < n
             /\ evs[MaxOf(apps)].digest
                  = sha384(getPeHashPreimage(LinuxBody).val)
        /\ ~HasLinuxSection =>
             /\ Cardinality(apps) = 1
             /\ evs[MinOf(apps)].name = "Linux kernel"

\* A successful run on a UKI that went on to log its .cmdline and .initrd.
C3_Witness ==
  \E k \in Finished :
    /\ HasLinuxSection
    /\ Cardinality(OfType(outcomes[k].events,
                          "EV_EFI_BOOT_SERVICES_APPLICATION")) = 2
    /\ Cardinality(OfType(outcomes[k].events, "EV_EVENT_TAG")) = 2

Named(evs, name) == { n \in 1..Len(evs) : evs[n].name = name }

\* The cmdline and initrd events a non-UKI run with cmdline c must log.
CmdlineEventsFor(evs, c) ==
  LET cmds == Named(evs, "Linux kernel command-line parameters")
      irds == Named(evs, "Linux initial ramdisk")
  IN  /\ Cardinality(cmds) = 1
      /\ \A n \in cmds :
           /\ evs[n].type = "EV_EVENT_TAG"
           /\ evs[n].register = 2
           /\ evs[n].digest
                = sha384(utf16LeEncode(
                    c \o (IF td.software.hasInitrd THEN INITRD_ARG ELSE <<>>)
                      \o << 0 >>))
           /\ \A m \in irds : n < m
      /\ Cardinality(irds) = (IF td.software.hasInitrd THEN 1 ELSE 0)
      /\ \A m \in irds :
           /\ evs[m].type = "EV_EVENT_TAG"
           /\ evs[m].register = 2
           /\ evs[m].digest = sha384(td.software.initrd)

\* C4: for a non-UKI kernel and every string c supplied as software.cmdline,
\* the log holds exactly one cmdline event (EV_EVENT_TAG, register 2) before
\* the initrd event, over UTF-16LE of c, " initrd=initrd" if there is an
\* initrd, and NUL; and an initrd event over the initrd bytes exactly when
\* there is an initrd.
C4_CmdlineEvent ==
  \A k \in Finished :
    (~HasLinuxSection /\ td.software.hasCmdline)
      => CmdlineEventsFor(outcomes[k].events, td.software.cmdline)

\* C4, for the strings that are not empty: the same events.
C4_NonEmptyCmdlineEvent ==
  \A k \in Finished :
    (~HasLinuxSection /\ td.software.hasCmdline /\ td.software.cmdline # <<>>)
      => CmdlineEventsFor(outcomes[k].events, td.software.cmdline)

\* A successful non-UKI run with the empty string as cmdline and an initrd.
C4_Witness ==
  \E k \in Finished :
    /\ ~HasLinuxSection
    /\ td.software.hasCmdline
    /\ td.software.cmdline = <<>>
    /\ td.software.hasInitrd

SameOutcome(a, b) ==
  /\ a.status = b.status
  /\ a.status = "ok" =>
       /\ a.registers = b.registers
       /\ Len(a.events) = Len(b.events)
       /\ \A n \in 1..Len(a.events) : a.events[n].digest = b.events[n].digest
  /\ a.status = "error" => a.err = b.err

\* C5: successive calls of reproduceRtmr on one TrustDomain, whose kernel
\* buffer the first call has patched in place, settle the same way: the same
\* event digests and registers, or the same error; and successive calls of
\* reproduceMrtd on its firmware return the same digest.
C5_Deterministic ==
  /\ \A a, b \in 1..Len(outcomes) : SameOutcome(outcomes[a], outcomes[b])
  /\ \A a, b \in 1..Len(mrtds) : mrtds[a] = mrtds[b]

\* Two calls have returned on a kernel whose load flags the patch has set,
\* and reproduceMrtd has been called twice.
C5_Witness ==
  /\ Len(outcomes) >= 2
  /\ outcomes[1].status = "ok"
  /\ kernelByte(td.software.kernel, 529) >= 128
  /\ Len(mrtds) >= 2

\* Two calls have thrown after the first one had written to the kernel.
C5_WitnessError ==
  /\ Len(outcomes) >= 2
  /\ outcomes[1].status = "error"
  /\ outcomes[1].err = "RAM disk is too large"
  /\ kernelByte(td.software.kernel, 529) >= 128

\* ------------------------------------------------------------------------
\* Properties of getHobHashPreimage
\* ------------------------------------------------------------------------

\* The sum of the lengths of the first n entries.
RECURSIVE lengthSum(_, _)
lengthSum(entries, n) ==
  IF n = 0 THEN Num(0)
  ELSE NumAdd(lengthSum(entries, n - 1),
              NumSub(entries[n][2], entries[n][1]))

\* [memBase, memBase + memSize) of the TD_HOB and TempMem sections.
ReservedRanges(sections) ==
  { << sections[n].memBase, NumAdd(sections[n].memBase, sections[n].memSize) >> :
      n \in { m \in 1..Len(sections) :
                sections[m].sectionType \in { "TD_HOB", "TempMem" } } }

\* The ranges cover [0, total) one after the other, and the reserved ones
\* are the sections' ranges.
Covers(entries, sections, total) ==
  /\ lengthSum(entries, Len(entries)) = total
  /\ entries[1][1] = Num(0)
  /\ \A n \in 1..(Len(entries) - 1) : entries[n + 1][1] = entries[n][2]
  /\ \A n, m \in 1..Len(entries) :
       n < m => (NumLe(entries[n][2], entries[m][1])
                   \/ NumLe(entries[m][2], entries[n][1]))
  /\ { << entries[n][1], entries[n][2] >> :
         n \in { m \in 1..Len(entries) : entries[m][3] = 1 } }
       = ReservedRanges(sections)

HobReturned == hobRun.pc = "done" /\ hobRun.ok

\* C6: for every section list with a TD_HOB section and every
\* totalMemoryBytes, the ranges the HOB builder emits have lengths summing to
\* totalMemoryBytes, are contiguous from 0 and pairwise non-overlapping, and
\* the reserved ones are exactly the ranges of the TD_HOB and TempMem
\* sections.
C6_HobCoverage ==
  HobReturned =>
    Covers(hobRun.entries, hobRun.tdxMetadataSections,
           hobRun.totalMemoryBytes)

\* The reserved sections lie one after the other inside [0, total).
WellFormedLayout(sections, total) ==
  /\ \A r \in ReservedRanges(sections) : NumLe(r[2], total)
  /\ \A n, m \in 1..Len(sections) :
       (n < m /\ isReserved(sections[n]) /\ isReserved(sections[m]))
         => (NumLe(NumAdd(sections[n].memBase, sections[n].memSize),
                   sections[m].memBase)
               \/ NumLe(NumAdd(sections[m].memBase, sections[m].memSize),
                        sections[n].memBase))

\* C6, for the section lists whose reserved sections do not overlap and end
\* at or below totalMemoryBytes: the same coverage.
C6_WellFormedHobCoverage ==
  (HobReturned /\ WellFormedLayout(hobRun.tdxMetadataSections,
                                   hobRun.totalMemoryBytes))
    => Covers(hobRun.entries, hobRun.tdxMetadataSections,
              hobRun.totalMemoryBytes)

\* The builder has returned for a TD_HOB section that ends above
\* totalMemoryBytes.
C6_Witness ==
  /\ HobReturned
  /\ \E r \in ReservedRanges(hobRun.tdxMetadataSections) :
       NumLt(hobRun.totalMemoryBytes, r[2])

\* The builder has returned for a well-formed layout with a gap before,
\* between and after two reserved sections.
C6_WitnessWellFormed ==
  /\ HobReturned
  /\ WellFormedLayout(hobRun.tdxMetadataSections, hobRun.totalMemoryBytes)
  /\ Len(hobRun.entries) = 5

\* ------------------------------------------------------------------------
\* Properties of getPeHashPreimage
\* ------------------------------------------------------------------------

\* File positions of the CheckSum field and of data directory entry 4.
checksumField(optionalHeader) ==
  << optionalHeader.offset + 64, optionalHeader.offset + 68 >>

certDirEntry(optionalHeader) ==
  << optionalHeader.offset + optionalHeader.fixedOptionalHeaderSize + 32,
     optionalHeader.offset + optionalHeader.fixedOptionalHeaderSize + 40 >>

ExcludedFields(optionalHeader) ==
  { checksumField(optionalHeader) }
    \cup (IF optionalHeader.numberOfRvaAndSizes > 4
            THEN { certDirEntry(optionalHeader) } ELSE {})

Overlaps(v, r) == v[1] < r[2] /\ r[1] < v[2]

\* The views among parts[1..n] that take a byte of an excluded field.
Offending(parts, n, optionalHeader) ==
  { k \in 1..n : \E r \in ExcludedFields(optionalHeader) :
                   Overlaps(parts[k], r) }

PeSucceeded == peRun.pc = "done" /\ peRun.ok

\* The preimage is the bytes of the views of hashParts, in order.
PreimageIsParts ==
  peRun.val = Flatten([k \in 1..Len(peRun.hashParts) |->
                         viewBytes(peRun.bytes, peRun.hashParts[k])])

\* The headers end after the excluded fields and all raw section data lies
\* behind the headers.
SectionsBehindHeaders ==
  /\ \A r \in ExcludedFields(peRun.optionalHeader) :
       r[2] <= peRun.optionalHeader.sizeOfHeaders
  /\ \A k \in 1..Len(peRun.validSections) :
       peRun.validSections[k][1] >= peRun.optionalHeader.sizeOfHeaders

\* C7 as stated: for every layout, when getPeHashPreimage succeeds no byte
\* of the preimage comes from the checksum field or, with more than four
\* data directories, from the certificate-table directory entry.
C7_PreimageExcludesFields ==
  PeSucceeded =>
    /\ PreimageIsParts
    /\ Offending(peRun.hashParts, Len(peRun.hashParts),
                 peRun.optionalHeader) = {}

\* C7 amended: the header views never take a byte of the two fields, and no
\* view does when the headers end after the fields and every section's raw
\* data lies behind the headers.
C7_HeaderExcludesFields ==
  PeSucceeded =>
    /\ PreimageIsParts
    /\ Offending(peRun.hashParts, peRun.nHeader, peRun.optionalHeader) = {}
    /\ SectionsBehindHeaders =>
         Offending(peRun.hashParts, Len(peRun.hashParts),
                   peRun.optionalHeader) = {}

\* A success on an image with six data directories, two sections behind the
\* headers and trailing data.
C7_Witness ==
  /\ PeSucceeded
  /\ peRun.optionalHeader.numberOfRvaAndSizes > 4
  /\ peRun.nHeader = 3
  /\ Len(peRun.validSections) = 2
  /\ SectionsBehindHeaders
  /\ Len(peRun.hashParts) = peRun.nHeader + 3

\* A success in which a section's raw data brings the checksum field in.
C7_WitnessOverlap ==
  /\ PeSucceeded
  /\ Offending(peRun.hashParts, peRun.nHeader, peRun.optionalHeader) = {}
  /\ \E k \in (peRun.nHeader + 1)..Len(peRun.hashParts) :
       Overlaps(peRun.hashParts[k], checksumField(peRun.optionalHeader))

\* ------------------------------------------------------------------------
\* Properties of qemuPatchKernel
\* ------------------------------------------------------------------------

\* ramSize >= 0xB0000000
AtLeastB(ramSize) == NumLe(<< 720896, 0 >>, ramSize)

PatchDone == patchRun.pc = "done"

\* C8: for two RAM sizes of at least 0xB0000000, patching copies of one
\* kernel (same initrd and cmdline) leaves identical kernel bytes, or
\* throws in both calls.
C8_PatchIndependentOfRam ==
  (PatchDone /\ AtLeastB(patchRun.rams[1]) /\ AtLeastB(patchRun.rams[2])) =>
    /\ patchRun.results[1].ok = patchRun.results[2].ok
    /\ patchRun.results[1].err = patchRun.results[2].err
    /\ patchRun.results[1].kernel = patchRun.results[2].kernel

\* Two returned calls with different RAM sizes of at least 0xB0000000 on a
\* protocol 2.15 kernel with an initrd, whose address the cap decides.
C8_Witness ==
  /\ PatchDone
  /\ AtLeastB(patchRun.rams[1])
  /\ AtLeastB(patchRun.rams[2])
  /\ patchRun.rams[1] # patchRun.rams[2]
  /\ patchRun.software.hasInitrd
  /\ patchRun.protocol >= 524
  /\ patchRun.results[1].ok
  /\ patchRun.results[1].kernel # patchRun.software.kernel
  /\ getUint32Num(patchRun.results[1].kernel, 536) = << 524247, 0 >>

\* Below 0xB0000000 the RAM size shows in the patched kernel.
C8_WitnessBelow ==
  /\ PatchDone
  /\ ~AtLeastB(patchRun.rams[1])
  /\ ~AtLeastB(patchRun.rams[2])
  /\ patchRun.results[1].ok
  /\ patchRun.results[2].ok
  /\ patchRun.results[1].kernel # patchRun.results[2].kernel

\* ------------------------------------------------------------------------
\* Properties of reproduceMrtd
\* ------------------------------------------------------------------------

\* A 128-byte record: the tag, zeros up to 16, the address, zeros up to 128.
TaggedRecord(tag, address) ==
  tag \o Zeros(16 - Len(tag)) \o U64LEOfNum(address) \o Zeros(104)

\* The 256 bytes at 0-based offset off of the image, zero where the image
\* has none.
Chunk256(bytes, off) ==
  [n \in 1..256 |-> IF off + n <= Len(bytes) THEN bytes[off + n] ELSE 0]

\* What C9 says section s contributes, for a size of pages whole pages.
ExpectedOfSection(bytes, s, pages) ==
  Flatten([p \in 1..pages |->
             TaggedRecord(MEM_PAGE_ADD, NumAdd(s.memBase, << p - 1, 0 >>))])
  \o (IF s.extendMr
        THEN Flatten([c \in 1..(16 * pages) |->
               TaggedRecord(MR_EXTEND,
                            NumAdd(s.memBase, Num(256 * (c - 1))))
               \o Chunk256(bytes, s.rawOffset + 256 * (c - 1))])
        ELSE <<>>)

ExpectedPreimage(firmware) ==
  Flatten([k \in 1..Len(firmware.tdxMetadataSections) |->
             ExpectedOfSection(firmware.bytes,
                               firmware.tdxMetadataSections[k],
                               firmware.tdxMetadataSections[k].memSize[1])])

RECURSIVE ExpectedLength(_, _)
ExpectedLength(sections, k) ==
  IF k > Len(sections) THEN 0
  ELSE sections[k].memSize[1] * 128
         + (IF sections[k].extendMr
              THEN sections[k].memSize[1] * 16 * 384 ELSE 0)
         + ExpectedLength(sections, k + 1)

MrtdDone == mrtdRun.pc = "done"

\* Every memSize is a whole number of pages.
WholePages(firmware) ==
  \A k \in 1..Len(firmware.tdxMetadataSections) :
    firmware.tdxMetadataSections[k].memSize[2] = 0

\* Every measured section's pages lie inside the firmware file.
MeasuredInFile(firmware) ==
  \A k \in 1..Len(firmware.tdxMetadataSections) :
    LET s == firmware.tdxMetadataSections[k]
    IN  s.extendMr =>
          s.rawOffset + s.memSize[1] * PAGE_SIZE <= Len(firmware.bytes)

\* C9: the MRTD preimage is, section by section in declared order, the
\* MEM.PAGE.ADD records of the pages, then for measured sections one
\* MR.EXTEND record and 256 firmware bytes per chunk; its length is the sum
\* of pages * 128 plus pages * 16 * 384 for measured sections.
C9_PreimageStructure ==
  (MrtdDone /\ WholePages(mrtdRun.firmware)) =>
    /\ mrtdRun.preimage = ExpectedPreimage(mrtdRun.firmware)
    /\ Len(mrtdRun.preimage)
         = ExpectedLength(mrtdRun.firmware.tdxMetadataSections, 1)
    /\ mrtdRun.digest = reproduceMrtd(mrtdRun.firmware)

\* The structure holds when the measured sections lie inside the file.
C9_InFilePreimageStructure ==
  (MrtdDone /\ WholePages(mrtdRun.firmware)
     /\ MeasuredInFile(mrtdRun.firmware)) =>
    /\ mrtdRun.preimage = ExpectedPreimage(mrtdRun.firmware)
    /\ Len(mrtdRun.preimage)
         = ExpectedLength(mrtdRun.firmware.tdxMetadataSections, 1)
    /\ mrtdRun.digest = reproduceMrtd(mrtdRun.firmware)

\* A finished call on two sections, the second measured and inside the file.
C9_Witness ==
  /\ MrtdDone
  /\ WholePages(mrtdRun.firmware)
  /\ MeasuredInFile(mrtdRun.firmware)
  /\ Len(mrtdRun.firmware.tdxMetadataSections) = 2
  /\ mrtdRun.firmware.tdxMetadataSections[2].extendMr
  /\ Len(mrtdRun.preimage) = 3 * 128 + 16 * 384

\* A finished call on a measured page that starts 2048 bytes before the end
\* of the file: the preimage is 2048 bytes short.
C9_WitnessShort ==
  /\ MrtdDone
  /\ WholePages(mrtdRun.firmware)
  /\ ~MeasuredInFile(mrtdRun.firmware)
  /\ Len(mrtdRun.preimage) = 128 + 16 * 384 - 2048

\* ------------------------------------------------------------------------
\* Properties of parseFirmware
\* ------------------------------------------------------------------------

FwDone == fwRun.pc = "done"

\* The last 16 bytes of the image.
LastSixteen(image) == SubSeq(image, Max(Len(image) - 15, 1), Len(image))

\* The 16 bytes at length - 0x30, the first 16 of the last 48 bytes.
FooterSlot(image) == SubSeq(image, Len(image) - 47, Len(image) - 32)

\* C10 as stated: parseFirmware rejects every image whose last 16 bytes are
\* not the mixed-endian encoding of 96b582de-1fb2-45f7-baea-a366c55a082d.
C10_RejectsWrongLastSixteen ==
  (FwDone /\ LastSixteen(fwRun.bytes) # FOOTER_GUID_BYTES) => ~fwRun.ok

\* C10 amended: parseFirmware rejects every image of fewer than 48 bytes
\* and, with the footer error, every image in which the 16 bytes at
\* length - 0x30 are not the encoding of the GUID.
C10_RejectsWrongFooterSlot ==
  FwDone =>
    /\ Len(fwRun.bytes) < 48 =>
         (~fwRun.ok
            /\ fwRun.err \in { "Wrong table footer guid", "RangeError" })
    /\ (Len(fwRun.bytes) >= 48
          /\ FooterSlot(fwRun.bytes) # FOOTER_GUID_BYTES) =>
         (~fwRun.ok /\ fwRun.err = "Wrong table footer guid")

\* An image rejected for its footer although its last 16 bytes are the GUID.
C10_Witness ==
  /\ FwDone
  /\ ~fwRun.ok
  /\ fwRun.err = "Wrong table footer guid"
  /\ Len(fwRun.bytes) = 256
  /\ FooterSlot(fwRun.bytes) = WRONG_GUID_BYTES
  /\ LastSixteen(fwRun.bytes) = FOOTER_GUID_BYTES

\* An image accepted, with two sections, although its last 16 bytes are not
\* the GUID.
C10_WitnessAccepted ==
  /\ FwDone
  /\ fwRun.ok
  /\ Len(fwRun.tdxMetadataSections) = 2
  /\ FooterSlot(fwRun.bytes) = FOOTER_GUID_BYTES
  /\ LastSixteen(fwRun.bytes) # FOOTER_GUID_BYTES

\* ------------------------------------------------------------------------
\* C11: the checks of the metadata table
\* ------------------------------------------------------------------------

\* Record i of the table lies inside the buffer.
RecordFits(table, i) == 32 + 32 * i + 32 <= Len(table)

\* The sectionType index of record i is one of 0..8.
RecordTypeKnown(table, i) ==
  SubSeq(table, 32 + 32 * i + 25, 32 + 32 * i + 28)
    \in { U32LE(k) : k \in 0 .. 8 }

\* The table starts with the metadata UUID, carries "TDVF" and version 1,
\* holds every record below its count, and every record has a known type.
MetadataWellFormed(table) ==
  /\ Len(table) >= 32
  /\ SubSeq(table, 1, 16) = uuidToBytes(METADATA_GUID)
  /\ SubSeq(table, 17, 20) = TDVF_SIGNATURE
  /\ SubSeq(table, 25, 28) = U32LE(1)
  /\ \A i \in 0 .. (Len(table) \div 32) :
       NumLt(Num(i), getUint32Num(table, 28))
         => RecordFits(table, i) /\ RecordTypeKnown(table, i)

\* C11: parseTdxMetadataSections ends with a section list exactly when the
\* metadata table starts with UUID e9eaf9f3-168e-44d5-a8eb-7f4d8738f6ae,
\* carries signature "TDVF" and version 1, holds all its 32-byte records
\* inside the buffer and every sectionType index is below 9; otherwise it
\* ends with an error and no firmware is returned.
C11_SectionsOnlyFromWellFormed ==
  [][(fwRun.pc \in { "header", "records" } /\ fwRun'.pc = "done")
       => (fwRun'.ok <=> MetadataWellFormed(fwRun.metadataTable))]_vars

\* Two records were decoded and returned.
C11_Witness ==
  /\ FwDone
  /\ fwRun.ok
  /\ Len(fwRun.tdxMetadataSections) = 2

\* Each of the failing checks has fired.
C11_WitnessTooFew == FwDone /\ ~fwRun.ok /\ fwRun.err = "Not enough data for section"

C11_WitnessType == FwDone /\ ~fwRun.ok /\ fwRun.err = "Invalid section type index"

C11_WitnessVersion == FwDone /\ ~fwRun.ok /\ fwRun.err = "Unsupported version"

\* ------------------------------------------------------------------------
\* C12: termination of the walk over the GUID table
\* ------------------------------------------------------------------------

\* The 16 bytes of the metadata-offset GUID occur nowhere in the image.
NoOffsetEntry(image) ==
  \A k \in 1 .. (Len(image) - 15) :
    SubSeq(image, k, k + 15) # uuidToBytes(METADATA_OFFSET_GUID)

\* The walk is at an entry whose length field is 0: the iteration leaves
\* offset, and with it the whole state, as it was.
WalkStuck ==
  /\ fwRun.pc = "walk"
  /\ walkStep(fwRun.bytes, fwRun.offset, fwRun.tableStart).kind = "next"
  /\ walkStep(fwRun.bytes, fwRun.offset, fwRun.tableStart).offset
       = fwRun.offset

\* C12: for every image with a valid footer GUID and no entry carrying
\* UUID e47a6535-984a-4798-865e-4685a7bf8ec2, the walk over the GUID table
\* terminates and parseFirmware ends with an error, whatever the table
\* length and the entry lengths are.
C12_WalkTerminates ==
  (fwRun.pc = "walk" /\ NoOffsetEntry(fwRun.bytes))
    ~> (FwDone /\ ~fwRun.ok)

\* The walk has reached an entry of length 0 in such an image.
C12_Witness == WalkStuck /\ NoOffsetEntry(fwRun.bytes)

\* When the walk over such an image ends, it ends with an error.
C12_EndsWithError ==
  [][(fwRun.pc = "walk" /\ NoOffsetEntry(fwRun.bytes)
        /\ fwRun'.pc # "walk")
       => (fwRun'.pc = "done" /\ ~fwRun'.ok)]_vars

\* Away from entries of length 0 the walk terminates.
C12_TerminatesUnlessStuck ==
  (fwRun.pc = "walk") ~> (FwDone \/ fwRun.pc = "header" \/ WalkStuck)

\* ------------------------------------------------------------------------
\* C13: the data-model invariant of a returned firmware
\* ------------------------------------------------------------------------

\* How many of the sections have type TD_HOB.
HobCount(sections) ==
  Cardinality({ i \in 1 .. Len(sections) :
                  sections[i].sectionType = "TD_HOB" })

\* Every memSize is a multiple of 4096.
AllAligned(sections) ==
  \A i \in 1 .. Len(sections) : sections[i].memSize[2] = 0

\* Every sectionType is one of the nine names.
AllTypesKnown(sections) ==
  \A i \in 1 .. Len(sections) :
    \E k \in 1 .. 9 :
      sections[i].sectionType = TDX_METADATA_SECTION_TYPES[k]

\* C13: in every firmware returned by parseFirmware each section's memSize
\* is a multiple of 4096, exactly one section has type TD_HOB and each
\* sectionType is one of the nine fixed names.
C13_DataModelInvariant ==
  (FwDone /\ fwRun.ok)
    => /\ AllAligned(fwRun.tdxMetadataSections)
       /\ HobCount(fwRun.tdxMetadataSections) = 1
       /\ AllTypesKnown(fwRun.tdxMetadataSections)

\* A firmware was returned with a memSize of 0x1200.
C13_Witness ==
  /\ FwDone
  /\ fwRun.ok
  /\ ~AllAligned(fwRun.tdxMetadataSections)

\* A firmware was returned with no TD_HOB section, and one with two.
C13_WitnessNoHob ==
  FwDone /\ fwRun.ok /\ HobCount(fwRun.tdxMetadataSections) = 0

C13_WitnessTwoHobs ==
  FwDone /\ fwRun.ok /\ HobCount(fwRun.tdxMetadataSections) = 2

\* The part of the invariant the decoder does enforce: the section types.
C13_TypesKnown ==
  (FwDone /\ fwRun.ok) => AllTypesKnown(fwRun.tdxMetadataSections)

\* ------------------------------------------------------------------------
\* C14: the file-size check of getPeHashPreimage
\* ------------------------------------------------------------------------

\* sizeOfHeaders plus the lengths of the hashed sections' raw bodies.
SumOfBytesHashed ==
  peRun.optionalHeader.sizeOfHeaders + SumViews(peRun.validSections)

\* The u32 at certDirEntryOffset + 4, or 0 without a certificate directory.
CertSizeField ==
  IF peRun.optionalHeader.numberOfRvaAndSizes > 4
    THEN getUint32(peRun.bytes, certDirEntry(peRun.optionalHeader)[1] + 4)
    ELSE 0

\* C14: getPeHashPreimage fails with an error whenever
\* imageSize < sumOfBytesHashed + certSize.
C14_ShortFileRejected ==
  PeSucceeded => ~(Len(peRun.bytes) < SumOfBytesHashed + CertSizeField)

\* C14 as the code has it: getPeHashPreimage fails with an error whenever
\* sumOfBytesHashed < imageSize < sumOfBytesHashed + certSize.
C14_ShortTrailerRejected ==
  PeSucceeded
    => ~(/\ Len(peRun.bytes) > SumOfBytesHashed
         /\ Len(peRun.bytes) < SumOfBytesHashed + CertSizeField)

\* The check has thrown: 32 bytes follow the hashed bytes, certSize is 64.
C14_Witness ==
  /\ peRun.pc = "done"
  /\ ~peRun.ok
  /\ peRun.err
       = "Unsupported: File size is less than SUM_OF_BYTES_HASHED + CertSize."

\* A preimage was returned for a file that ends with its hashed bytes and
\* has a certSize above 0.
C14_WitnessNoTrailer ==
  /\ PeSucceeded
  /\ Len(peRun.bytes) <= SumOfBytesHashed
  /\ CertSizeField > 0

\* ------------------------------------------------------------------------
\* C15: the initrd checks of the kernel patcher
\* ------------------------------------------------------------------------

\* The boot protocol of a kernel that holds the whole setup header: the
\* u16 at 0x206 behind "HdrS", and 0 without the magic.
ProtocolField(kernel) ==
  IF SubSeq(kernel, 515, 518) = HDRS_MAGIC THEN getUint16(kernel, 518) ELSE 0

\* The protocol-dependent limit: 0xffffffff from 2.12 on with
\* XLF_CAN_BE_LOADED_ABOVE_4G, initrd_addr_max from 2.03 on, else 0x37ffffff.
ProtocolLimit(kernel) ==
  IF ProtocolField(kernel) >= 524 /\ (kernel[567] \div 2) % 2 = 1
    THEN << 1048575, 4095 >>
  ELSE IF ProtocolField(kernel) >= 515 THEN getUint32Num(kernel, 556)
  ELSE << 229375, 4095 >>

\* The limit capped at below4gMemSize - 0x28000 - 1.
CappedLimit(kernel, ramSize) ==
  LET cap == NumSub(below4gMemSizeOf(ramSize), Num(163841))
  IN  IF NumLt(cap, ProtocolLimit(kernel)) THEN cap
      ELSE ProtocolLimit(kernel)

\* The kernel holds every header offset the patcher touches (up to 0x238).
HoldsHeader(kernel) == Len(kernel) >= 568

\* The outcome of call n agrees with the initrd checks.
InitrdChecked(n) ==
  LET kernel == patchRun.software.kernel
      length == Len(patchRun.software.initrd)
      old == ProtocolField(kernel) < 512
      large == NumLe(CappedLimit(kernel, patchRun.rams[n]), Num(length))
  IN  (patchRun.software.hasInitrd /\ HoldsHeader(kernel))
        => /\ old => ~patchRun.results[n].ok
           /\ large => ~patchRun.results[n].ok
           /\ (~old /\ ~large) => patchRun.results[n].ok

\* C15: with an initrd the patcher throws if protocol < 0x200 and throws if
\* initrd.length >= initrdMax, the protocol-dependent limit capped at
\* below4gMemSize - 0x28000 - 1; otherwise, the header offsets lying
\* inside the buffer, it returns.
C15_InitrdChecks ==
  \A n \in 1 .. 2 : Len(patchRun.results) >= n => InitrdChecked(n)

\* An initrd as long as initrdMax was refused.
C15_Witness ==
  /\ PatchDone
  /\ patchRun.software.hasInitrd
  /\ HoldsHeader(patchRun.software.kernel)
  /\ CappedLimit(patchRun.software.kernel, patchRun.rams[2])
       = Num(Len(patchRun.software.initrd))
  /\ patchRun.results[2].err = "RAM disk is too large"

\* The refusal of an old kernel, and a returned call with a capped limit.
C15_WitnessOld ==
  /\ PatchDone
  /\ patchRun.software.hasInitrd
  /\ patchRun.results[2].err
       = "RAM disk is already in kernel image or kernel is too old"

C15_WitnessReturned ==
  /\ PatchDone
  /\ patchRun.software.hasInitrd
  /\ patchRun.results[2].ok
  /\ CappedLimit(patchRun.software.kernel, patchRun.rams[2])
       # ProtocolLimit(patchRun.software.kernel)

\* ------------------------------------------------------------------------
\* C16: a failing step of reproduceEvents fails the whole call
\* ------------------------------------------------------------------------

\* The error of the inner kernel of a UKI, once the outer image is decoded.
InnerFailure(software, pe) ==
  IF ~findLinuxSection(pe).found THEN [failed |-> FALSE]
  ELSE LET inner == getPeHashPreimage(
                      viewBytes(software.kernel,
                                findLinuxSection(pe).section.body))
       IN  IF inner.ok THEN [failed |-> FALSE]
           ELSE [failed |-> TRUE, err |-> inner.err]

\* The error of the kernel steps: the patch, the decoder, the preimage.
KernelFailure(software, patch) ==
  IF ~patch.ok THEN [failed |-> TRUE, err |-> patch.err]
  ELSE IF ~parsePe(patch.kernel).ok
    THEN [failed |-> TRUE, err |-> parsePe(patch.kernel).err]
  ELSE IF ~getPeHashPreimage(patch.kernel).ok
    THEN [failed |-> TRUE, err |-> getPeHashPreimage(patch.kernel).err]
  ELSE InnerFailure([software EXCEPT !.kernel = patch.kernel],
                    parsePe(patch.kernel))

\* The error of the ACPI steps.
AcpiFailure(tables) ==
  IF ~tables.ok THEN [failed |-> TRUE, err |-> tables.err]
  ELSE IF ~getTableLoader(tables.val).ok
    THEN [failed |-> TRUE, err |-> getTableLoader(tables.val).err]
  ELSE [failed |-> FALSE]

\* The first step of event generation that fails on a trust domain.
FirstFailure(domain) ==
  LET hob == getHobHashPreimage(domain.firmware.tdxMetadataSections,
                                domain.hardware.totalMemoryBytes)
      acpi == AcpiFailure(parseAcpiTables(domain.hardware.acpiTables))
  IN  IF ~hob.ok THEN [failed |-> TRUE, err |-> hob.err]
      ELSE IF acpi.failed THEN acpi
      ELSE KernelFailure(domain.software,
                         qemuPatchKernel(domain.software,
                                         domain.hardware.totalMemoryBytes))

\* An outcome that carries an error and nothing else.
ErrorOnly(outcome, err) ==
  /\ DOMAIN outcome = { "status", "err" }
  /\ outcome.status = "error"
  /\ outcome.err = err

\* C16: when a step of event generation fails, reproduceRtmr fails with
\* that step's error and returns neither registers nor events, however
\* many events had been produced before; a call that fails has failed in
\* such a step.
C16_FailureIsWhole ==
  \A k \in 1 .. Len(outcomes) :
    IF FirstFailure(td).failed
      THEN ErrorOnly(outcomes[k], FirstFailure(td).err)
      ELSE outcomes[k].status = "ok"

\* A call failed in the kernel step, with ten or more events produced.
C16_Witness ==
  /\ pc = "done"
  /\ Len(outcomes) >= 1
  /\ outcomes[Len(outcomes)].status = "error"
  /\ Len(events) >= 10

\* A call failed for the missing TD_HOB section, before any event.
C16_WitnessHob ==
  /\ pc = "done"
  /\ Len(outcomes) >= 1
  /\ outcomes[Len(outcomes)].status = "error"
  /\ events = <<>>

\* ------------------------------------------------------------------------
\* C17: what the calls change of their inputs
\* ------------------------------------------------------------------------

\* 0x20-0x23, 0x210, 0x211, 0x218-0x21F, 0x224-0x225 and 0x228-0x22B.
PatchedOffsets ==
  (32 .. 35) \cup { 528, 529 } \cup (536 .. 543) \cup { 548, 549 }
    \cup (552 .. 555)

\* The 0-based offsets at which two buffers of one length differ.
ChangedOffsets(before, after) ==
  { off \in 0 .. (Len(before) - 1) : before[off + 1] # after[off + 1] }

\* C17: a step of reproduceRtmr leaves the firmware bytes, the section
\* list, the ACPI blob and the initrd buffer as they were and changes the
\* kernel buffer only at offsets 0x20-0x23, 0x210, 0x211, 0x218-0x21F,
\* 0x224-0x225 and 0x228-0x22B; reproduceMrtd changes none of its inputs.
C17_Frame ==
  [][/\ td'.firmware = td.firmware
     /\ td'.hardware = td.hardware
     /\ td'.software.initrd = td.software.initrd
     /\ td'.software.hasInitrd = td.software.hasInitrd
     /\ Len(td'.software.kernel) = Len(td.software.kernel)
     /\ ChangedOffsets(td.software.kernel, td'.software.kernel)
          \subseteq PatchedOffsets]_rtmrVars

\* A call has returned and left the loader type, the load flags, the
\* initrd length and the command-line address in the kernel buffer, and
\* reproduceMrtd has been called.
C17_Witness ==
  /\ Len(outcomes) >= 1
  /\ outcomes[1].status = "ok"
  /\ td.software.hasInitrd
  /\ kernelByte(td.software.kernel, 528) = 176
  /\ kernelByte(td.software.kernel, 529) >= 128
  /\ getUint32(td.software.kernel, 540) = Len(td.software.initrd)
  /\ getUint32(td.software.kernel, 552) = 131072
  /\ Len(mrtds) >= 1

\* A call has patched a kernel without "HdrS" at 0x20-0x23.
C17_WitnessOld ==
  /\ Len(outcomes) >= 1
  /\ getUint16(td.software.kernel, 32) = 41791

\* ------------------------------------------------------------------------
\* C18: the table-loader preimage
\* ------------------------------------------------------------------------

AcpiDone == acpiRun.pc = "done"

\* The command codes of ALLOCATE, ADD_POINTER and ADD_CHECKSUM.
CMD_ALLOCATE == 1

CMD_ADD_POINTER == 2

CMD_ADD_CHECKSUM == 3

\* The codes of the commands one table stands for: three ADD_POINTER for
\* FACP, four for RSDT, and one ADD_CHECKSUM unless it is FACS.
KindsOfTable(table) ==
  (IF table.signature = SIG_FACP
     THEN << CMD_ADD_POINTER, CMD_ADD_POINTER, CMD_ADD_POINTER >> ELSE <<>>)
  \o (IF table.signature = SIG_RSDT
        THEN << CMD_ADD_POINTER, CMD_ADD_POINTER, CMD_ADD_POINTER,
                CMD_ADD_POINTER >>
        ELSE <<>>)
  \o (IF table.signature = SIG_FACS THEN <<>> ELSE << CMD_ADD_CHECKSUM >>)

\* The codes of the whole command list, for the tables in discovered order.
ExpectedKinds(tables) ==
  << CMD_ALLOCATE, CMD_ALLOCATE >>
  \o Flatten([k \in 1 .. Len(tables) |-> KindsOfTable(tables[k])])
  \o << CMD_ADD_POINTER, CMD_ADD_CHECKSUM >>

\* The file name at offset off of a command, up to its first NUL.
FileNameAt(command, off, name) ==
  SubSeq(command, off + 1, off + Len(name) + 1) = name \o << 0 >>

\* The preimage is n 128-byte commands with the expected codes, the first
\* two allocating the RSDP and the tables file and the last two pointing
\* the RSDP at the tables and summing it, followed by zeros up to 4096.
LoaderAsClaimed(loader, tables) ==
  LET kinds == ExpectedKinds(tables)
      n == Len(kinds)
      command(k) == SubSeq(loader, 128 * (k - 1) + 1, 128 * k)
  IN  /\ Len(loader) = 4096
      /\ 128 * n <= 4096
      /\ \A k \in 1 .. n : SubSeq(command(k), 1, 4) = U32LE(kinds[k])
      /\ FileNameAt(command(1), 4, FILE_RSDP)
      /\ FileNameAt(command(2), 4, FILE_TABLES)
      /\ FileNameAt(command(n - 1), 4, FILE_RSDP)
      /\ FileNameAt(command(n - 1), 60, FILE_TABLES)
      /\ FileNameAt(command(n), 4, FILE_RSDP)
      /\ SubSeq(loader, 128 * n + 1, 4096) = Zeros(4096 - 128 * n)

\* C18: for every list of discovered ACPI tables getTableLoader returns a
\* preimage of exactly 4096 bytes: ALLOCATE(rsdp), ALLOCATE(tables), per
\* table in discovered order three ADD_POINTER for FACP, four for RSDT and
\* one ADD_CHECKSUM unless FACS, then ADD_POINTER(rsdp) and
\* ADD_CHECKSUM(rsdp), then zeros up to 4096.
C18_LoaderPreimage ==
  acpiRun.pc \in { "rsdp", "done" }
    => /\ "loader" \in DOMAIN acpiRun
       /\ LoaderAsClaimed(acpiRun.loader, acpiRun.tables)

\* getTableLoader has thrown on a list of 29 tables, 33 commands.
C18_Witness ==
  /\ AcpiDone
  /\ ~acpiRun.ok
  /\ Len(acpiRun.tables) = 29
  /\ Len(acpiRun.commands) = 33

\* For lists that make at most 32 commands the preimage is as claimed.
C18_LoaderPreimageUpTo32 ==
  (acpiRun.pc \in { "rsdp", "done" } /\ Len(acpiRun.commands) <= 32)
    => /\ "loader" \in DOMAIN acpiRun
       /\ LoaderAsClaimed(acpiRun.loader, acpiRun.tables)

\* A preimage was returned for a list with FACP, RSDT and FACS tables, and
\* one for 28 tables, whose 32 commands fill the 4096 bytes.
C18_WitnessMixed ==
  /\ AcpiDone
  /\ acpiRun.ok
  /\ \E a, b, c \in 1 .. Len(acpiRun.tables) :
       /\ acpiRun.tables[a].signature = SIG_FACP
       /\ acpiRun.tables[b].signature = SIG_RSDT
       /\ acpiRun.tables[c].signature = SIG_FACS

C18_WitnessFull == AcpiDone /\ acpiRun.ok /\ Len(acpiRun.commands) = 32

\* ------------------------------------------------------------------------
\* C19: the preimages of the empty Secure Boot variables
\* ------------------------------------------------------------------------

\* 8be4df61-93ca-11d2-aa0d-00e098032b8c in the mixed-endian encoding.
GLOBAL_VAR_GUID_BYTES ==
  << 97, 223, 228, 139, 202, 147, 210, 17, 170, 13, 0, 224, 152, 3, 43,
     140 >>

\* d719b2cb-3d3a-4596-a3bc-dad00e67656f in the mixed-endian encoding.
SECURITY_DB_GUID_BYTES ==
  << 203, 178, 25, 215, 58, 61, 150, 69, 163, 188, 218, 208, 14, 103, 101,
     111 >>

\* UTF-16LE of a name of ASCII characters: each code unit and a zero byte.
AsciiUtf16Le(name) ==
  [i \in 1 .. 2 * Len(name) |->
     IF i % 2 = 1 THEN name[(i + 1) \div 2] ELSE 0]

\* encodedGuid || name length as LE u64 || 8 zero bytes || utf16le(name)
EmptyVariable(guid, name) ==
  guid \o << Len(name), 0, 0, 0, 0, 0, 0, 0 >> \o Zeros(8)
    \o AsciiUtf16Le(name)

\* The event called name, if there is one, has the digest of the variable.
VariableEvent(name, guid, variable) ==
  \A i \in 1 .. Len(events) :
    events[i].name = name
      => events[i].digest = sha384(EmptyVariable(guid, variable))

\* C19 as stated: the SecureBoot event's digest is SHA-384 of a string of
\* 44 bytes, uuid(8be4df61-93ca-11d2-aa0d-00e098032b8c) || u64le(10) ||
\* zeros(8) || utf16le("SecureBoot").
C19_SecureBootDigest44 ==
  \A i \in 1 .. Len(events) :
    events[i].name = "Secure boot mode"
      => /\ events[i].digest
              = sha384(EmptyVariable(GLOBAL_VAR_GUID_BYTES, STR_SecureBoot))
         /\ Len(EmptyVariable(GLOBAL_VAR_GUID_BYTES, STR_SecureBoot)) = 44

\* C19: the SecureBoot event's digest is SHA-384 of the 52-byte string
\* uuid(8be4df61-93ca-11d2-aa0d-00e098032b8c) || u64le(10) || zeros(8) ||
\* utf16le("SecureBoot"); each empty-variable preimage is encodedGuid ||
\* name length in UTF-16 code units as LE u64 || 8 zero bytes ||
\* utf16le(name).
C19_EmptyVariableDigests ==
  /\ Len(EmptyVariable(GLOBAL_VAR_GUID_BYTES, STR_SecureBoot)) = 52
  /\ VariableEvent("Secure boot mode", GLOBAL_VAR_GUID_BYTES, STR_SecureBoot)
  /\ VariableEvent("Public platform key", GLOBAL_VAR_GUID_BYTES, STR_PK)
  /\ VariableEvent("Key exchange key signature database",
                   GLOBAL_VAR_GUID_BYTES, STR_KEK)
  /\ VariableEvent("Authorized signature database", SECURITY_DB_GUID_BYTES,
                   STR_db)
  /\ VariableEvent("Forbidden signature database", SECURITY_DB_GUID_BYTES,
                   STR_dbx)

\* The five variables have been measured.
C19_Witness ==
  /\ \E i \in 1 .. Len(events) : events[i].name = "Secure boot mode"
  /\ \E i \in 1 .. Len(events) :
       events[i].name = "Forbidden signature database"
  /\ Cardinality({ i \in 1 .. Len(events) :
                     events[i].type = "EV_EFI_VARIABLE_DRIVER_CONFIG" }) = 5

\* ------------------------------------------------------------------------
\* C20: the RSDP preimage
\* ------------------------------------------------------------------------

\* The discovered tables with signature RSDT, by index.
RsdtIndexes(tables) ==
  { k \in 1 .. Len(tables) : tables[k].signature = SIG_RSDT }

\* The offset of the first RSDT table, or 0 when there is none.
FirstRsdt(tables) ==
  IF RsdtIndexes(tables) = {} THEN 0
  ELSE tables[CHOOSE k \in RsdtIndexes(tables) :
                \A j \in RsdtIndexes(tables) : k <= j].offset

\* The first table of the blob is RSDT, at offset 0.
RsdtFirst(tables) ==
  /\ Len(tables) >= 1
  /\ tables[1].signature = SIG_RSDT
  /\ tables[1].offset = 0

\* Bytes 0..8 are "RSD PTR " and byte 8 is 0.
RsdpHead(rsdp) ==
  /\ Len(rsdp) = 20
  /\ SubSeq(rsdp, 1, 8) = << 82, 83, 68, 32, 80, 84, 82, 32 >>
  /\ rsdp[9] = 0

\* Bytes 16..20 hold the LE u32 offset of the first RSDT, or 0; they are
\* all zero when the first table is RSDT.
RsdpOffset(rsdp, tables) ==
  /\ SubSeq(rsdp, 17, 20) = U32LE(FirstRsdt(tables))
  /\ RsdtFirst(tables) => SubSeq(rsdp, 17, 20) = << 0, 0, 0, 0 >>

\* C20 as stated: bytes 0..8 of the 20-byte RSDP preimage are "RSD PTR ",
\* byte 8 is 0, bytes 9..15 are B, O, C, H, S, NUL, and bytes 16..20 hold
\* the LE u32 offset of the first RSDT table or 0.
C20_RsdpOemNul ==
  (AcpiDone /\ acpiRun.ok)
    => /\ RsdpHead(acpiRun.rsdp)
       /\ SubSeq(acpiRun.rsdp, 10, 15) = << 66, 79, 67, 72, 83, 0 >>
       /\ RsdpOffset(acpiRun.rsdp, acpiRun.tables)

\* C20: bytes 0..8 of the 20-byte RSDP preimage are "RSD PTR ", byte 8 is
\* 0, bytes 9..15 are "BOCHS " (B, O, C, H, S, space), byte 15 is 0, and
\* bytes 16..20 hold the LE u32 offset of the first RSDT table or 0.
C20_RsdpOemSpace ==
  (AcpiDone /\ acpiRun.ok)
    => /\ RsdpHead(acpiRun.rsdp)
       /\ SubSeq(acpiRun.rsdp, 10, 15) = << 66, 79, 67, 72, 83, 32 >>
       /\ acpiRun.rsdp[16] = 0
       /\ RsdpOffset(acpiRun.rsdp, acpiRun.tables)

\* The RSDP of a blob whose first table is RSDT at offset 0.
C20_Witness == AcpiDone /\ acpiRun.ok /\ RsdtFirst(acpiRun.tables)

\* The RSDP of a blob whose first RSDT lies behind two other tables, and
\* of a blob without RSDT.
C20_WitnessLater ==
  /\ AcpiDone
  /\ acpiRun.ok
  /\ FirstRsdt(acpiRun.tables) = 32
  /\ getUint32(acpiRun.rsdp, 16) = 32

C20_WitnessNone ==
  /\ AcpiDone
  /\ acpiRun.ok
  /\ Len(acpiRun.tables) = 3
  /\ RsdtIndexes(acpiRun.tables) = {}

\* ------------------------------------------------------------------------
\* C21: the GUID round trip
\* ------------------------------------------------------------------------

\* A digit 0-9 or a-f, the digits of the canonical form.
IsLowerHex(c) == (c >= 48 /\ c <= 57) \/ (c >= 97 /\ c <= 102)

\* 8-4-4-4-12 lowercase hexadecimal digits with dashes between the groups.
IsCanonicalUuid(u) ==
  /\ Len(u) = 36
  /\ \A i \in 1 .. 36 :
       IF i \in { 9, 14, 19, 24 } THEN u[i] = 45 ELSE IsLowerHex(u[i])

\* The value of the two digits of u at 1-based positions i and i + 1.
DigitOf(c) == IF c <= 57 THEN c - 48 ELSE IF c <= 70 THEN c - 55 ELSE c - 87

PairAt(u, i) == 16 * DigitOf(u[i]) + DigitOf(u[i + 1])

\* u32 LE, u16 LE, u16 LE, u16 BE and 6 bytes BE.
MixedEndian(u) ==
  << PairAt(u, 7), PairAt(u, 5), PairAt(u, 3), PairAt(u, 1),
     PairAt(u, 12), PairAt(u, 10),
     PairAt(u, 17), PairAt(u, 15),
     PairAt(u, 20), PairAt(u, 22),
     PairAt(u, 25), PairAt(u, 27), PairAt(u, 29), PairAt(u, 31),
     PairAt(u, 33), PairAt(u, 35) >>

UuidDone == uuidRun.pc = "done"

\* C21: for every canonical UUID string u (8-4-4-4-12 hexadecimal digits in
\* the lowercase form bytesToUuid prints), bytesToUuid(uuidToBytes(u)) = u,
\* and the 16 bytes are laid out as u32 LE, u16 LE, u16 LE, u16 BE and
\* 6 bytes BE.
C21_RoundTrip ==
  (UuidDone /\ IsCanonicalUuid(uuidRun.uuid))
    => /\ uuidRun.text = uuidRun.uuid
       /\ uuidRun.bytes = MixedEndian(uuidRun.uuid)

\* A round trip of 8be4df61-93ca-11d2-aa0d-00e098032b8c is complete.
C21_Witness ==
  /\ UuidDone
  /\ uuidRun.uuid = GLOBAL_VAR_GUID
  /\ uuidRun.text = GLOBAL_VAR_GUID

\* A string with uppercase digits has the same bytes and comes back in
\* lowercase.
C21_UppercaseLowered ==
  (UuidDone /\ ~IsCanonicalUuid(uuidRun.uuid))
    => /\ uuidRun.bytes = MixedEndian(uuidRun.uuid)
       /\ uuidRun.text # uuidRun.uuid
       /\ IsCanonicalUuid(uuidRun.text)

C21_WitnessUppercase == UuidDone /\ ~IsCanonicalUuid(uuidRun.uuid)

\* ------------------------------------------------------------------------
\* C22: the AML package length
\* ------------------------------------------------------------------------

\* 0, 1, 0x3F, 0x40, 0xFFF, 0x1000, 0xFFFFF, 0x100000 and 0xFFFFFFF.
ClaimedLengths ==
  { 0, 1, 63, 64, 4095, 4096, 1048575, 1048576, 268435455 }

AmlDone == amlRun.pc = "done"

\* The package length an encoding stands for: the low six bits of a single
\* byte, else the low nibble and the bytes that follow, low byte first.
PkgLengthOf(bytes) ==
  IF Len(bytes) = 1 THEN bytes[1] % 64
  ELSE (bytes[1] % 16) + 16 * bytes[2]
         + (IF Len(bytes) >= 3 THEN 4096 * bytes[3] ELSE 0)
         + (IF Len(bytes) >= 4 THEN 1048576 * bytes[4] ELSE 0)

\* The encoding was returned after at most two re-encodings, stands for
\* the payload length plus its own length, and the high two bits of its
\* first byte are the number of length bytes that follow.
EncodingAsClaimed(run) ==
  /\ run.ok
  /\ run.encodings \in { 1, 2 }
  /\ Len(run.val) \in 1 .. 4
  /\ run.val[1] \div 64 = Len(run.val) - 1
  /\ PkgLengthOf(run.val) = run.payloadLength + Len(run.val)

\* C22 as stated: for each payload length in {0, 1, 0x3F, 0x40, 0xFFF,
\* 0x1000, 0xFFFFF, 0x100000, 0xFFFFFFF} encodePackageLength reaches its
\* fixed point in at most two re-encodings and returns an encoding whose
\* first byte's high two bits are the number of length bytes that follow.
C22_PackageLengthAll ==
  (AmlDone /\ amlRun.payloadLength \in ClaimedLengths)
    => EncodingAsClaimed(amlRun)

\* C22: the same for each payload length in {0, 1, 0x3F, 0x40, 0xFFF,
\* 0x1000, 0xFFFFF, 0x100000} and every other length up to 0xFFFFFFB; from
\* 0xFFFFFFC on, 0xFFFFFFF included, the call throws "Package is too large".
C22_PackageLength ==
  AmlDone
    => IF amlRun.payloadLength <= 268435451
         THEN EncodingAsClaimed(amlRun)
         ELSE ~amlRun.ok /\ amlRun.err = "Package is too large"

\* The encoding of 0xFFFFF was returned after the second re-encoding.
C22_Witness ==
  /\ AmlDone
  /\ amlRun.payloadLength = 1048575
  /\ amlRun.ok
  /\ amlRun.encodings = 2
  /\ Len(amlRun.val) = 4

\* The call on 0xFFFFFFF has thrown.
C22_WitnessTooLarge ==
  /\ AmlDone
  /\ amlRun.payloadLength = 268435455
  /\ ~amlRun.ok

\* ------------------------------------------------------------------------
\* C23: the kernel is patched before it is hashed
\* ------------------------------------------------------------------------

\* The names of the events that precede the kernel image, for n CFV
\* sections: HOB, CFV, the five variables, the separator, three ACPI events.
NamesBeforeKernel(n) ==
  << "TD Hand-Off Block (HOB)" >>
  \o [k \in 1 .. n |-> "Configuration Firmware Volume (CFV)"]
  \o << "Secure boot mode", "Public platform key",
        "Key exchange key signature database",
        "Authorized signature database", "Forbidden signature database",
        "Separator", "QEMU ACPI table loader",
        "Root System Description Pointer (RSDP)", "ACPI tables" >>

\* The events produced so far are exactly those that precede the kernel.
AllBeforeKernel(evs) ==
  /\ Len(evs) >= 10
  /\ [k \in 1 .. Len(evs) |-> evs[k].name] = NamesBeforeKernel(Len(evs) - 10)

\* The digest of an image's Authenticode preimage, when it has one.
ImageDigest(kernel) ==
  IF getPeHashPreimage(kernel).ok
    THEN sha384(getPeHashPreimage(kernel).val)
    ELSE <<>>

\* C23: in every run of reproduceRtmr the kernel buffer changes only in
\* the step that follows the HOB, CFV, variable, separator and three ACPI
\* events; that step takes the hash preimage from the patched kernel
\* bytes, never from the unpatched ones, and the kernel event pushed next
\* has the digest of the patched kernel.
C23_PatchBeforeHash ==
  [][/\ td'.software.kernel # td.software.kernel => pc = "kernel"
     /\ (pc = "kernel" /\ pc' # "kernel") => AllBeforeKernel(events)
     /\ (pc = "kernel" /\ pc' = "kernelEvent")
          => /\ td'.software.kernel
                  = qemuPatchKernel(td.software,
                                    td.hardware.totalMemoryBytes).kernel
             /\ events' = events
             /\ sha384(kernelPe'.preimage) = ImageDigest(td'.software.kernel)
             /\ td'.software.kernel # td.software.kernel
                  => sha384(kernelPe'.preimage)
                       # ImageDigest(td.software.kernel)
     /\ (pc = "kernelEvent" /\ pc' = "bootorder")
          => /\ Len(events') = Len(events) + 1
             /\ events'[Len(events')].type
                  = "EV_EFI_BOOT_SERVICES_APPLICATION"
             /\ events'[Len(events')].digest
                  = ImageDigest(td.software.kernel)
             /\ td'.software.kernel = td.software.kernel]_rtmrVars

\* The kernel event has just been added, over a kernel that carries the
\* loader type the patch writes.
C23_Witness ==
  /\ pc = "bootorder"
  /\ calls = 1
  /\ kernelByte(td.software.kernel, 528) = 176
  /\ events[Len(events)].digest = ImageDigest(td.software.kernel)

\* ------------------------------------------------------------------------
\* C24: termination and result of parseAcpiTables
\* ------------------------------------------------------------------------

\* The first table lies at offset 0 and each next one at the previous
\* offset plus the previous length, which is a strictly greater offset.
OffsetsChain(tables) ==
  /\ Len(tables) >= 1 => tables[1].offset = 0
  /\ \A k \in 1 .. (Len(tables) - 1) :
       /\ tables[k + 1].offset = tables[k].offset + tables[k].length
       /\ tables[k + 1].offset > tables[k].offset

\* Each table carries the signature and length found at its offset.
TablesFromBlob(bytes, tables) ==
  \A k \in 1 .. Len(tables) :
    /\ tables[k].signature
         = SubSeq(bytes, tables[k].offset + 1, tables[k].offset + 4)
    /\ tables[k].length = getUint32(bytes, tables[k].offset + 4)

\* The loop has pushed the table at one offset twice: its length is 0.
ParserRepeats ==
  /\ acpiRun.pc = "parse"
  /\ Len(acpiRun.tables) >= 2
  /\ acpiRun.tables[Len(acpiRun.tables)].offset
       = acpiRun.tables[Len(acpiRun.tables) - 1].offset

\* C24: parseAcpiTables terminates on every blob, whatever the length
\* fields are, a length of 0 included, and its tables lie at strictly
\* increasing offsets, the first at 0 and each next at the previous offset
\* plus the previous length. The loop condition reads the blob and the
\* offset alone and no pass lowers the offset, so the call returns exactly
\* when every pass that stays in the loop moves the offset forward.
C24_ParserTerminates ==
  [][(acpiRun.pc = "parse" /\ acpiRun'.pc = "parse")
       => /\ acpiRun'.offset > acpiRun.offset
          /\ OffsetsChain(acpiRun'.tables)]_vars

\* What is left of the blob: it never grows, and a pass that leaves it as
\* it is meets the same loop condition again.
C24_OffsetNeverFalls ==
  [][acpiRun.pc = "parse" => acpiRun'.offset >= acpiRun.offset]_vars

\* The parser stands in its loop on a blob whose second table has length
\* 0, with that table pushed more than once: the pass before left the
\* offset where it was, below the length of the blob.
C24_Witness ==
  /\ ParserRepeats
  /\ acpiRun.tables[Len(acpiRun.tables)].length = 0
  /\ acpiRun.offset = acpiRun.tables[Len(acpiRun.tables)].offset
  /\ acpiStep(acpiRun.bytes, acpiRun.offset).kind = "push"

\* When the parser returns, the tables are in blob order, the first at
\* offset 0 and each next at the previous offset plus the previous length.
C24_ReturnedTables ==
  acpiRun.pc \notin { "off", "parse" }
    => /\ OffsetsChain(acpiRun.tables)
       /\ TablesFromBlob(acpiRun.bytes, acpiRun.tables)

\* Unless a table of length 0 is met, the parser returns.
C24_TerminatesUnlessRepeats ==
  (acpiRun.pc = "parse") ~> (acpiRun.pc # "parse" \/ ParserRepeats)

\* ------------------------------------------------------------------------
\* C25: the initrd address and size written by the kernel patcher
\* ------------------------------------------------------------------------

\* min(totalMemoryBytes, lowmem), lowmem being 0x80000000 from 0xB0000000
\* bytes of RAM on and 0xB0000000 below.
MinRamLowmem(ramSize) ==
  LET lowmem == IF NumLe(<< 720896, 0 >>, ramSize) THEN << 524288, 0 >>
                ELSE << 720896, 0 >>
  IN  IF NumLt(ramSize, lowmem) THEN ramSize ELSE lowmem

\* Call n returned with an initrd present.
InitrdPlaced(n) ==
  /\ Len(patchRun.results) >= n
  /\ patchRun.results[n].ok
  /\ patchRun.software.hasInitrd

\* The u32 fields at 0x218 and 0x21C of the kernel as call n left it.
InitrdAddrField(n) == getUint32Num(patchRun.results[n].kernel, 536)

InitrdSizeField(n) == getUint32Num(patchRun.results[n].kernel, 540)

\* The fields of call n agree with the limit and the initrd length.
InitrdFieldsRight(n) ==
  LET length == Num(Len(patchRun.software.initrd))
      initrdMax == CappedLimit(patchRun.software.kernel, patchRun.rams[n])
      addr == InitrdAddrField(n)
  IN  /\ addr[2] = 0
      /\ addr[1] = NumSub(initrdMax, length)[1]
      /\ NumLe(NumAdd(addr, length), initrdMax)
      /\ NumLe(initrdMax,
               NumSub(MinRamLowmem(patchRun.rams[n]), Num(163841)))
      /\ InitrdSizeField(n) = length

\* C25: when the patcher returns with an initrd present, the u32 at 0x218
\* is (initrdMax - initrd.length) with the low 12 bits cleared, read as an
\* unsigned value: a multiple of 4096 with
\* initrdAddr + initrd.length <= initrdMax
\*   <= min(totalMemoryBytes, lowmem) - 0x28000 - 1,
\* also for RAM sizes in [0x80000000, 0xB0000000); the u32 at 0x21C is
\* initrd.length.
C25_InitrdFields ==
  \A n \in 1 .. 2 : InitrdPlaced(n) => InitrdFieldsRight(n)

\* A returned call with 0xAFFFF000 bytes of RAM whose initrd address lies
\* at or above 2^31.
C25_Witness ==
  /\ PatchDone
  /\ InitrdPlaced(2)
  /\ patchRun.rams[2] = << 720895, 0 >>
  /\ NumLe(<< 524288, 0 >>, InitrdAddrField(2))
  /\ InitrdSizeField(2) = Num(8)

\* A returned call whose limit is not a multiple of 4096 past the initrd:
\* the mask has rounded the address down.
C25_WitnessRounded ==
  /\ PatchDone
  /\ InitrdPlaced(2)
  /\ NumLt(NumAdd(InitrdAddrField(2), Num(8)),
           CappedLimit(patchRun.software.kernel, patchRun.rams[2]))

\* With less RAM than ACPI_DATA_SIZE the limit is negative and every
\* initrd is refused.
C25_WitnessTinyRam ==
  /\ PatchDone
  /\ patchRun.software.hasInitrd
  /\ patchRun.rams[2] = << 32, 0 >>
  /\ patchRun.results[2].err = "RAM disk is too large"

\* ------------------------------------------------------------------------
\* C26: the HOB hash preimage inside the HOB buffer
\* ------------------------------------------------------------------------

\* The end of the preimage for n emitted ranges.
PreimageEnd(n) == 56 + 48 * n

\* Bytes [from, to) of a buffer.
BytesOf(b, from, to) == SubSeq(b, from + 1, to)

\* The 48 bytes are a resource descriptor HOB of the range: type 3,
\* length 48, physical start and resource length.
DescribesRange(d, entry) ==
  /\ Len(d) = 48
  /\ getUint16(d, 0) = 3
  /\ getUint16(d, 2) = 48
  /\ getUint64Num(d, 32) = entry[1]
  /\ getUint64Num(d, 40) = NumSub(entry[2], entry[1])

\* The preimage, the buffer and the ranges of a returned call agree.
PreimageLaidOut(pre, hob, entries, memBase) ==
  LET n == Len(entries)
  IN  /\ pre = BytesOf(hob, 0, PreimageEnd(n))
      /\ Len(pre) = PreimageEnd(n)
      /\ BytesOf(hob, PreimageEnd(n), PreimageEnd(n) + 4)
           = << 255, 255, 8, 0 >>
      /\ getUint64Num(pre, 48) = NumAdd(memBase, Num(PreimageEnd(n) + 8))
      /\ \A k \in 0 .. n - 1 :
           DescribesRange(BytesOf(pre, 56 + 48 * k, 56 + 48 * (k + 1)),
                          entries[k + 1])

\* C26: for n emitted memory ranges the HOB hash preimage is exactly the
\* first 56 + 48 n bytes of the HOB buffer, the END HOB being written into
\* the buffer behind it; the u64 at offset 48 is
\* TD_HOB.memBase + 56 + 48 n + 8, and the resource descriptor of range k
\* lies at bytes 56 + 48 k .. 56 + 48 (k + 1), in range order.
C26_PreimageLayout ==
  HobReturned =>
    PreimageLaidOut(hobRun.val, hobRun.hob, hobRun.entries,
                    hobRun.hobSection.memBase)

\* A returned call with five ranges and a TD_HOB section away from 0.
C26_Witness ==
  /\ HobReturned
  /\ Len(hobRun.entries) = 5
  /\ hobRun.hobSection.memBase # Num(0)
  /\ Len(hobRun.hob) > Len(hobRun.val) + 8

\* A returned call whose buffer ends four bytes behind the preimage.
C26_WitnessTight ==
  /\ HobReturned
  /\ Len(hobRun.hob) = Len(hobRun.val) + 4

\* ------------------------------------------------------------------------
\* C27: the kernel buffer after a failed patch
\* ------------------------------------------------------------------------

\* Call n threw one of the two errors of the initrd part.
InitrdRefused(n) ==
  /\ Len(patchRun.results) >= n
  /\ ~patchRun.results[n].ok
  /\ patchRun.results[n].err
       \in { "RAM disk is already in kernel image or kernel is too old",
             "RAM disk is too large" }

\* Offsets at which call n left the kernel different from the bytes it
\* was given.
OffsetsWritten(n) ==
  { k \in 0 .. Len(patchRun.software.kernel) - 1 :
      patchRun.results[n].kernel[k + 1] # patchRun.software.kernel[k + 1] }

\* C27: when the kernel patcher fails on the initrd, with protocol < 0x200
\* or initrd.length >= initrdMax, the kernel buffer is byte for byte what it
\* was before the call.
C27_FailedPatchKeepsKernel ==
  \A n \in 1 .. 2 :
    InitrdRefused(n) => patchRun.results[n].kernel = patchRun.software.kernel

\* A refused initrd behind which the loader type 0xb0 stands in the
\* kernel at 0x210, where the caller's bytes had another value.
C27_Witness ==
  /\ PatchDone
  /\ InitrdRefused(2)
  /\ patchRun.results[2].err = "RAM disk is too large"
  /\ 528 \in OffsetsWritten(2)
  /\ patchRun.results[2].kernel[529] = 176

\* A kernel older than 2.00 refused with the words at 0x20 and 0x22
\* written.
C27_WitnessOld ==
  /\ PatchDone
  /\ InitrdRefused(2)
  /\ patchRun.results[2].err
       = "RAM disk is already in kernel image or kernel is too old"
  /\ 32 \in OffsetsWritten(2)

\* What a refused call has written lies in the header fields that precede
\* the initrd part; the initrd address and size at 0x218 .. 0x21f stay.
C27_RefusedWritesHeaderOnly ==
  \A n \in 1 .. 2 :
    InitrdRefused(n)
      => OffsetsWritten(n)
           \subseteq ((32 .. 35) \cup { 528, 529 } \cup (548 .. 549)
                        \cup (552 .. 555))

\* ------------------------------------------------------------------------
\* C28: a UKI run and software.initrd / software.cmdline
\* ------------------------------------------------------------------------

UkiDone == ukiRun.pc = "done"

\* The two runs differ in software.initrd or software.cmdline.
UkiInputsDiffer == ukiRun.softwares[1] # ukiRun.softwares[2]

\* C28: with a UKI as the kernel image, two runs on equal UKI bytes that
\* differ only in software.initrd and software.cmdline produce identical
\* events (and with them identical registers): both settle alike.
C28_UkiIndependent ==
  UkiDone => ukiRun.results[1] = ukiRun.results[2]

\* Two runs on one UKI: the one without software.initrd has produced its
\* events, the one with software.initrd has thrown.
C28_Witness ==
  /\ UkiDone
  /\ ~ukiRun.softwares[1].hasInitrd
  /\ ukiRun.softwares[2].hasInitrd
  /\ ukiRun.softwares[1].cmdline = ukiRun.softwares[2].cmdline
  /\ ukiRun.results[1].ok
  /\ ~ukiRun.results[2].ok

\* Two runs without software.initrd that have both produced events, with
\* different digests of the UKI image: the command lines have 2 and 16
\* characters.
C28_WitnessCmdline ==
  /\ UkiDone
  /\ ukiRun.results[1].ok
  /\ ukiRun.results[2].ok
  /\ ukiRun.results[1].events[1].name = "Linux unified kernel image"
  /\ ukiRun.results[1].events[1].digest # ukiRun.results[2].events[1].digest

\* What the runs share: the events behind the image event come from the
\* sections of the UKI alone.
C28_PayloadFromUki ==
  (UkiDone /\ ukiRun.results[1].ok /\ ukiRun.results[2].ok)
    => Tail(ukiRun.results[1].events) = Tail(ukiRun.results[2].events)

\* Runs whose command lines round to the same size and that carry no
\* software.initrd produce identical events.
C28_SameSizeSameEvents ==
  (/\ UkiDone
   /\ ~ukiRun.softwares[1].hasInitrd
   /\ ~ukiRun.softwares[2].hasInitrd
   /\ cmdlineSizeOf(ukiRun.softwares[1]) = cmdlineSizeOf(ukiRun.softwares[2]))
    => ukiRun.results[1] = ukiRun.results[2]

\* ------------------------------------------------------------------------
\* C29, C30: the page while updates overlap
\* ------------------------------------------------------------------------

\* No invocation of updateRtmr is in flight, the page being loaded.
RtmrIdle == uiRun.pc = "page" /\ uiRun.rtmrCalls = <<>>

\* What the page shows once updateRtmr has run alone on the current
\* inputs: nothing when no TrustDomain can be built, else the error or the
\* result of the core.
RtmrOutcomeOfInputs(ui) ==
  LET got == UiTrustDomain(getTd(ui), ui)
  IN  IF ~got.ok THEN [kind |-> "error", error |-> got.err]
      ELSE IF got.td = UiNull THEN [kind |-> "none"]
      ELSE IF UiReproduceRtmr(got.td).ok
        THEN [kind |-> "value", value |-> UiReproduceRtmr(got.td).val]
      ELSE [kind |-> "error", error |-> UiReproduceRtmr(got.td).err]

\* C29: whenever no invocation of updateRtmr is in flight, the RTMR result
\* the page shows (rtmrModel.value and rtmrModel.error as rendered) is the
\* outcome computed from the current inputs; neither a result nor an error
\* of an invocation started for earlier inputs stays on display.
C29_ShownIsCurrent ==
  RtmrIdle => rtmrShown(uiRun) = RtmrOutcomeOfInputs(uiRun)

\* Nothing is in flight and the page shows registers computed for other
\* inputs than the ones set now.
C29_Witness ==
  /\ RtmrIdle
  /\ rtmrShown(uiRun).kind = "value"
  /\ RtmrOutcomeOfInputs(uiRun).kind = "value"
  /\ rtmrShown(uiRun).value # RtmrOutcomeOfInputs(uiRun).value

\* Nothing is in flight and the page shows the error of earlier inputs
\* while the inputs set now give registers.
C29_WitnessError ==
  /\ RtmrIdle
  /\ rtmrShown(uiRun).kind = "error"
  /\ RtmrOutcomeOfInputs(uiRun).kind = "value"

\* Nothing is in flight, no TrustDomain can be built from the inputs, and
\* rtmrModel.value holds registers of earlier inputs.
C29_WitnessValueKept ==
  /\ RtmrIdle
  /\ isInputMissing(uiRun)
  /\ uiRun.rtmrModel.value # UiNull

\* The page right after loading, before any change: what it shows is the
\* outcome of its inputs.
C29_ShownAfterLoad ==
  (RtmrIdle /\ uiRun.changes = 0)
    => rtmrShown(uiRun) = RtmrOutcomeOfInputs(uiRun)

\* C30: rtmrModel.calculating is true exactly while an invocation of
\* updateRtmr is in flight, overlapping ones included, and
\* mrtdModel.calculating exactly while one of updateMrtd is.
C30_CalculatingWhileInFlight ==
  uiRun.pc = "page"
    => /\ uiRun.rtmrModel.calculating = (uiRun.rtmrCalls # <<>>)
       /\ uiRun.mrtdModel.calculating = (uiRun.mrtdCalls # <<>>)

\* An invocation of updateRtmr is in flight with calculating false.
C30_Witness ==
  /\ uiRun.pc = "page"
  /\ uiRun.rtmrCalls # <<>>
  /\ ~uiRun.rtmrModel.calculating

\* The same for updateMrtd.
C30_WitnessMrtd ==
  /\ uiRun.pc = "page"
  /\ uiRun.mrtdCalls # <<>>
  /\ ~uiRun.mrtdModel.calculating

\* With nothing in flight both flags are false.
C30_IdleNotCalculating ==
  uiRun.pc = "page"
    => /\ (uiRun.rtmrCalls = <<>> => ~uiRun.rtmrModel.calculating)
       /\ (uiRun.mrtdCalls = <<>> => ~uiRun.mrtdModel.calculating)

\* With one invocation in flight that started last, the flag is true.
C30_CalculatingUntilFirstEnd ==
  [][(uiRun.pc = "page" /\ Len(uiRun'.rtmrCalls) > Len(uiRun.rtmrCalls))
       => uiRun'.rtmrModel.calculating]_vars

====
